---------------------------- MODULE Spec2Model ----------------------------
(***************************************************************************)
(* Model of the Google Smart Home bridge: the device registry and the      *)
(* account-link registry (database/models.js), the fulfillment endpoint    *)
(* with its SYNC / QUERY / EXECUTE / DISCONNECT handlers and translators   *)
(* (smarthome routes), the device provisioning routes, the OAuth token     *)
(* endpoint and the ThingsBoard gateway service.                           *)
(***************************************************************************)
EXTENDS Integers, Sequences, FiniteSets, TLC

VARIABLES
    now,        \* the wall clock read by Date.now()
    devices,    \* rows of table devices, in rowid order
    links,      \* rows of table google_account_links, in rowid order
    req,        \* the last request received
    resp,       \* the response sent for it
    gwCalls,    \* the Gateway (ThingsBoard) calls made while handling it
    adminToken,         \* ThingsBoardService.adminToken
    adminTokenExpiry,   \* ThingsBoardService.adminTokenExpiry
    callers,    \* where each caller of getAdminToken stands
    tbLogins    \* the logins ThingsBoard has received

\* the state of the ThingsBoard service object and of the calls into it
service == <<adminToken, adminTokenExpiry, callers, tbLogins>>

vars == <<now, devices, links, req, resp, gwCalls, service>>

----------------------------------------------------------------------------
(* Bounds of the model *)

MaxTime == 1        \* the clock stops ticking here
MaxLinks == 2       \* rows in table google_account_links
MaxDevices == 2     \* rows in table devices, under SpecQuery and SpecExecute
MaxSyncDevices == 3 \* rows in table devices, under SpecSync
MaxAuthDevices == 1 \* rows in table devices, under Spec
MaxBatch == 2       \* device ids in one QUERY, devices / executions in one EXECUTE group
MaxAuthBatch == 1   \* the same, under Spec
MaxTranslateDevices == 1    \* rows of table devices, under SpecTranslate
MaxServiceTime == 3600000   \* the clock stops here under SpecService (milliseconds)
MaxLogins == 3      \* logins ThingsBoard receives, under SpecService

Users == {1, 2}     \* ids of the rows of table users

----------------------------------------------------------------------------
(* Values *)

Null == [null |-> TRUE]             \* JavaScript null / undefined
NoSub == Null                       \* a token payload without agentUserId

SeqsUpTo(S, n) == UNION {[1..k -> S] : k \in 0..n}
NonEmptySeqsUpTo(S, n) == UNION {[1..k -> S] : k \in 1..n}

\* A bearer credential.  status: "missing" (no Authorization header),
\* "valid" (signed by this server, not expired), "badsig" (not signed by
\* this server), "expired".  The payload is (typ, uid, sub).
MissingToken == [typ |-> "none", uid |-> 0, sub |-> NoSub, status |-> "missing"]
SessionToken(u, st) == [typ |-> "session", uid |-> u, sub |-> NoSub, status |-> st]
AccessToken(u, agent, st) == [typ |-> "access_token", uid |-> u, sub |-> agent, status |-> st]

\* An agent id nobody was ever given (user 0 does not exist).
GhostAgent == [u |-> 0, t |-> 0]

----------------------------------------------------------------------------
(* middleware/auth.js and jsonwebtoken *)

\* jwt.verify: the payload of a token signed by this server and not expired
jwtVerify(tok) == IF tok.status = "valid" THEN tok ELSE Null

\* jwt.decode: the payload, whatever the signature and the expiry
jwtDecode(tok) == IF tok.status = "missing" THEN Null ELSE tok

\* authenticate: req.user.id of a request the middleware lets through
authenticate(tok) ==
    IF tok.status = "missing" THEN Null
    ELSE LET decoded == jwtVerify(tok)
         IN  IF decoded = Null THEN Null ELSE [id |-> decoded.uid]

generateAccessToken(userId, agentUserId) == AccessToken(userId, agentUserId, "valid")

\* The payloads of the other tokens this server signs: an authorization
\* code carries the redirect URI it was asked for, a refresh token the agent id.
AuthCode(u, uri, st) ==
    [typ |-> "auth_code", uid |-> u, sub |-> NoSub, redirectUri |-> uri, status |-> st]
RefreshToken(u, agent, st) == [typ |-> "refresh_token", uid |-> u, sub |-> agent, status |-> st]

\* generateToken: the session token of a user (its payload has no type)
generateToken(user) == SessionToken(user.id, "valid")

generateAuthCode(userId, clientId, redirectUri) == AuthCode(userId, redirectUri, "valid")

generateRefreshToken(userId, agentUserId) == RefreshToken(userId, agentUserId, "valid")

\* try { decoded = jwt.verify(code); if (decoded.type !== 'auth_code') throw; return decoded }
\* catch { return null }
verifyAuthCode(code) ==
    LET decoded == jwtVerify(code)
    IN  IF decoded = Null THEN Null
        ELSE IF decoded.typ # "auth_code" THEN Null
        ELSE decoded

verifyRefreshToken(token) ==
    LET decoded == jwtVerify(token)
    IN  IF decoded = Null THEN Null
        ELSE IF decoded.typ # "refresh_token" THEN Null
        ELSE decoded

----------------------------------------------------------------------------
(* database/models.js : DeviceModel *)

DeviceRow(uuid, owner, caps, t) ==
    [device_uuid |-> uuid, thingsboard_device_id |-> uuid, owner_user_id |-> owner,
     capabilities |-> caps, provisioned_at |-> t, is_online |-> 0, is_active |-> 1]

DeviceCreate(rows, owner, caps, t) ==
    Append(rows, DeviceRow(Len(rows) + 1, owner, caps, t))

\* findByUuid without "AND is_active = 1"
findByUuid_AnyState(rows, deviceUuid) ==
    LET hit == SelectSeq(rows, LAMBDA d : d.device_uuid = deviceUuid)
    IN  IF Len(hit) = 0 THEN Null ELSE hit[1]

\* SELECT * FROM devices WHERE device_uuid = ? AND is_active = 1
findByUuid(rows, deviceUuid) ==
    LET hit == SelectSeq(rows, LAMBDA d : d.device_uuid = deviceUuid /\ d.is_active = 1)
    IN  IF Len(hit) = 0 THEN Null ELSE hit[1]

\* delete as a DELETE of the row
DeviceDelete_Remove(rows, deviceUuid) ==
    SelectSeq(rows, LAMBDA d : d.device_uuid # deviceUuid)

\* UPDATE devices SET is_active = 0 WHERE device_uuid = ?
DeviceDelete(rows, deviceUuid) ==
    [i \in DOMAIN rows |->
        IF rows[i].device_uuid = deviceUuid THEN [rows[i] EXCEPT !.is_active = 0] ELSE rows[i]]

\* ORDER BY provisioned_at ASC: rows with equal keys keep their scan (rowid) order
RECURSIVE OrderByProvisionedAsc(_)
OrderByProvisionedAsc(rows) ==
    IF rows = <<>> THEN <<>>
    ELSE LET n == Len(rows)
             sorted == OrderByProvisionedAsc(SubSeq(rows, 1, n - 1))
             d == rows[n]
             before == SelectSeq(sorted, LAMBDA x : x.provisioned_at <= d.provisioned_at)
             after == SelectSeq(sorted, LAMBDA x : x.provisioned_at > d.provisioned_at)
         IN  before \o <<d>> \o after

\* ORDER BY provisioned_at DESC, as findByOwner orders the device list
RECURSIVE OrderByProvisionedDesc(_)
OrderByProvisionedDesc(rows) ==
    IF rows = <<>> THEN <<>>
    ELSE LET n == Len(rows)
             sorted == OrderByProvisionedDesc(SubSeq(rows, 1, n - 1))
             d == rows[n]
             before == SelectSeq(sorted, LAMBDA x : x.provisioned_at >= d.provisioned_at)
             after == SelectSeq(sorted, LAMBDA x : x.provisioned_at < d.provisioned_at)
         IN  before \o <<d>> \o after

\* SELECT * FROM devices WHERE owner_user_id = ? AND is_active = 1
\* ORDER BY provisioned_at DESC
findByOwner(rows, ownerUserId) ==
    OrderByProvisionedDesc(
        SelectSeq(rows, LAMBDA d : d.owner_user_id = ownerUserId /\ d.is_active = 1))

\* findAllForSync with the ORDER BY of findByOwner
findAllForSync_Desc(rows, ownerUserId) ==
    OrderByProvisionedDesc(
        SelectSeq(rows, LAMBDA d : d.owner_user_id = ownerUserId /\ d.is_active = 1))

findAllForSync(rows, ownerUserId) ==
    OrderByProvisionedAsc(
        SelectSeq(rows, LAMBDA d : d.owner_user_id = ownerUserId /\ d.is_active = 1))

----------------------------------------------------------------------------
(* database/models.js : GoogleAccountLinkModel *)

LinkRow(userId, agent, t) ==
    [user_id |-> userId, google_agent_user_id |-> agent,
     linked_at |-> t, last_sync_at |-> t, is_active |-> 1]

\* SELECT * FROM google_account_links WHERE google_agent_user_id = ? AND is_active = 1
findByAgentUserId(rows, agent) ==
    LET hit == SelectSeq(rows, LAMBDA l : l.google_agent_user_id = agent /\ l.is_active = 1)
    IN  IF Len(hit) = 0 THEN Null ELSE hit[1]

\* disconnect as a DELETE of the row
disconnect_Remove(rows, agent) ==
    SelectSeq(rows, LAMBDA l : l.google_agent_user_id # agent)

\* UPDATE google_account_links SET is_active = 0 WHERE google_agent_user_id = ?
disconnect(rows, agent) ==
    [i \in DOMAIN rows |->
        IF rows[i].google_agent_user_id = agent
        THEN [rows[i] EXCEPT !.is_active = 0] ELSE rows[i]]

\* updateLastSync without its WHERE clause
updateLastSync_All(rows, agent, t) ==
    [i \in DOMAIN rows |-> [rows[i] EXCEPT !.last_sync_at = t]]

\* UPDATE google_account_links SET last_sync_at = ? WHERE google_agent_user_id = ?
updateLastSync(rows, agent, t) ==
    [i \in DOMAIN rows |->
        IF rows[i].google_agent_user_id = agent
        THEN [rows[i] EXCEPT !.last_sync_at = t] ELSE rows[i]]

\* createOrUpdate as an INSERT into a table without the UNIQUE constraint
createOrUpdate_AlwaysInsert(rows, userId, agent, t) ==
    [threw |-> FALSE, rows |-> Append(rows, LinkRow(userId, agent, t))]

\* createOrUpdate looking the row up whatever its is_active
createOrUpdate_AnyState(rows, userId, agent, t) ==
    IF \E i \in DOMAIN rows : rows[i].google_agent_user_id = agent
    THEN [threw |-> FALSE,
          rows |-> [i \in DOMAIN rows |->
                      IF rows[i].google_agent_user_id = agent
                      THEN [rows[i] EXCEPT !.user_id = userId, !.last_sync_at = t,
                                           !.is_active = 1]
                      ELSE rows[i]]]
    ELSE [threw |-> FALSE, rows |-> Append(rows, LinkRow(userId, agent, t))]

\* createOrUpdate: the UPDATE of the active row, else the INSERT, which the
\* UNIQUE constraint on google_agent_user_id refuses (throws) when an
\* inactive row holds the agent id.
createOrUpdate(rows, userId, agent, t) ==
    IF findByAgentUserId(rows, agent) # Null
    THEN [threw |-> FALSE,
          rows |-> [i \in DOMAIN rows |->
                      IF rows[i].google_agent_user_id = agent
                      THEN [rows[i] EXCEPT !.user_id = userId, !.last_sync_at = t,
                                           !.is_active = 1]
                      ELSE rows[i]]]
    ELSE IF \E i \in DOMAIN rows : rows[i].google_agent_user_id = agent
         THEN [threw |-> TRUE, rows |-> rows]
         ELSE [threw |-> FALSE, rows |-> Append(rows, LinkRow(userId, agent, t))]

----------------------------------------------------------------------------
(* services/thingsboard.service.js : the calls of the fulfillment handlers. *)
(* Each takes the outcome of its HTTP exchange with ThingsBoard: GwError    *)
(* (an error response, no connection, no admin login) or the response data. *)

GwError == [gwError |-> TRUE]
GwAck == [ack |-> TRUE]

\* ThingsBoard accepts the connection and never answers: the axios calls
\* carry no timeout, so the await of the call never ends
GwHang == [gwHang |-> TRUE]

\* try { ... return response.data } catch { return null }
getLatestTelemetry(outcome) == IF outcome = GwError THEN Null ELSE outcome

\* try { ... return response.data } catch { return null }
getDeviceAttributes(outcome) == IF outcome = GwError THEN Null ELSE outcome

\* try { ... return response.data } catch { throw new Error('RPC command failed') }
sendRpcCommand(outcome) ==
    IF outcome = GwError THEN [threw |-> TRUE] ELSE [threw |-> FALSE, data |-> outcome]

----------------------------------------------------------------------------
(* smarthome routes : the translators *)

includes(capabilities, c) == \E i \in DOMAIN capabilities : capabilities[i] = c

\* convertToGoogleDevice with the fan rule tried before the light rule
convertToGoogleDevice_FanFirst(device) ==
    LET capabilities == device.capabilities
    IN  IF includes(capabilities, "fan") \/ includes(capabilities, "speed")
        THEN [id |-> device.device_uuid, type |-> "FAN", traits |-> <<"OnOff", "FanSpeed">>]
        ELSE IF includes(capabilities, "light") \/ includes(capabilities, "dimmer")
        THEN [id |-> device.device_uuid, type |-> "LIGHT",
              traits |-> IF includes(capabilities, "dimmer")
                         THEN <<"OnOff", "Brightness">> ELSE <<"OnOff">>]
        ELSE [id |-> device.device_uuid, type |-> "OUTLET", traits |-> <<"OnOff">>]

convertToGoogleDevice(device) ==
    LET capabilities == device.capabilities
    IN  IF includes(capabilities, "light") \/ includes(capabilities, "dimmer")
        THEN [id |-> device.device_uuid, type |-> "LIGHT",
              traits |-> IF includes(capabilities, "dimmer")
                         THEN <<"OnOff", "Brightness">> ELSE <<"OnOff">>]
        ELSE IF includes(capabilities, "fan") \/ includes(capabilities, "speed")
        THEN [id |-> device.device_uuid, type |-> "FAN", traits |-> <<"OnOff", "FanSpeed">>]
        ELSE [id |-> device.device_uuid, type |-> "OUTLET", traits |-> <<"OnOff">>]

StateKeys == {"device1_state", "device2_state", "device3_state", "device4_state"}

\* key.includes('device') && key.includes('state'), over the keys of a telemetry answer
IsStateKey(key) == key \in StateKeys

\* A JavaScript value that is a number, a boolean or a string.
Number(n) == [number |-> n]
Bool(b) == [boolean |-> b]
Text(s) == [string |-> s]

\* the list ThingsBoard answers for a key that has a latest value: [{ts, value}]
Reading(v) == <<[value |-> v]>>

\* telemetry[key]?.[0]?.value
LatestValue(telemetry, key) ==
    IF telemetry[key] = <<>> THEN Null ELSE telemetry[key][1].value

\* the test on a latest value without its "|| s === true"
IsOn_NumberOnly(s) == s = Number(1)

\* s === 1 || s === true, over the latest value of a key
IsOn(s) == s = Number(1) \/ s = Bool(TRUE)

\* the label `speed_${speed}` of a fan_speed value
SpeedLabelOf(speed) == <<"speed_", speed>>

convertToGoogleState(device, telemetry, attributes) ==
    IF telemetry = Null
    THEN [on |-> FALSE]
    ELSE LET deviceStates == {LatestValue(telemetry, key) :
                                 key \in {k \in DOMAIN telemetry : IsStateKey(k)}}
             on == \E s \in deviceStates : IsOn(s)
         IN  \* if (telemetry.fan_speed && telemetry.fan_speed[0])
             IF "fan_speed" \in DOMAIN telemetry /\ telemetry["fan_speed"] # <<>>
             THEN [on |-> on,
                   currentFanSpeedSetting |-> SpeedLabelOf(telemetry["fan_speed"][1].value)]
             ELSE [on |-> on]

SpeedLabels == {"speed_0", "speed_1", "speed_2", "speed_3", "speed_4", "speed_5"}

\* A JavaScript value that is a member the object literal inherits from
\* Object.prototype (a function or an object).
Inherited(name) == [inherited |-> name]

\* names every object literal answers through its prototype chain
ObjectPrototypeNames ==
    {"constructor", "toString", "valueOf", "hasOwnProperty", "__proto__"}

\* speedMap[label]: the entry of the label, the inherited member of that
\* name, or undefined
speedMap(label) ==
    CASE label = "speed_0" -> [value |-> Number(0)]
      [] label = "speed_1" -> [value |-> Number(1)]
      [] label = "speed_2" -> [value |-> Number(2)]
      [] label = "speed_3" -> [value |-> Number(3)]
      [] label = "speed_4" -> [value |-> Number(4)]
      [] label = "speed_5" -> [value |-> Number(5)]
      [] label \in ObjectPrototypeNames -> [value |-> Inherited(label)]
      [] OTHER -> Null

\* convertGoogleCommandToRpc without the capability test of SetFanSpeed
convertGoogleCommandToRpc_NoFanCheck(googleCommand, params, device) ==
    CASE googleCommand = "OnOff" ->
            [method |-> "setDeviceState",
             params |-> [device_id |-> "device1", state |-> params.on],
             resultState |-> [on |-> params.on]]
      [] googleCommand = "SetFanSpeed" ->
            LET m == speedMap(params.fanSpeed)
            IN  [method |-> "setFanSpeed",
                 params |-> [speed |-> IF m = Null THEN Number(0) ELSE m.value],
                 resultState |-> [currentFanSpeedSetting |-> params.fanSpeed]]
      [] googleCommand = "BrightnessAbsolute" ->
            IF includes(device.capabilities, "dimmer")
            THEN [method |-> "setBrightness",
                  params |-> [brightness |-> params.brightness],
                  resultState |-> [brightness |-> params.brightness]]
            ELSE Null
      [] OTHER -> Null

convertGoogleCommandToRpc(googleCommand, params, device) ==
    LET capabilities == device.capabilities
    IN  CASE googleCommand = "OnOff" ->
                [method |-> "setDeviceState",
                 params |-> [device_id |-> "device1", state |-> params.on],
                 resultState |-> [on |-> params.on]]
          [] googleCommand = "SetFanSpeed" ->
                IF includes(capabilities, "fan") \/ includes(capabilities, "speed")
                THEN LET m == speedMap(params.fanSpeed)
                         \* speedMap[params.fanSpeed] || 0
                         speed == IF m = Null THEN Number(0)
                                  ELSE IF m.value = Number(0) THEN Number(0) ELSE m.value
                     IN  [method |-> "setFanSpeed",
                          params |-> [speed |-> speed],
                          resultState |-> [currentFanSpeedSetting |-> params.fanSpeed]]
                ELSE Null
          [] googleCommand = "BrightnessAbsolute" ->
                IF includes(capabilities, "dimmer")
                THEN [method |-> "setBrightness",
                      params |-> [brightness |-> params.brightness],
                      resultState |-> [brightness |-> params.brightness]]
                ELSE Null
          [] OTHER -> Null

----------------------------------------------------------------------------
(* smarthome routes : the fulfillment endpoint and its handlers.  A handler *)
(* yields the response, the account-link rows it leaves and the Gateway     *)
(* calls it made.                                                           *)

EmptyPayload == <<>>

Response(code, requestId, payload) ==
    [code |-> code, requestId |-> requestId, payload |-> payload]

Handled(response, linkRows, calls) ==
    [resp |-> response, links |-> linkRows, calls |-> calls]

extractAgentUserId(r) ==
    IF r.token.status = "missing" THEN Null
    ELSE LET decoded == jwtDecode(r.token)
         IN  IF decoded = Null THEN Null ELSE decoded.sub

AuthFailure(r, linkRows) ==
    Handled(Response(401, r.requestId, [errorCode |-> "authFailure"]), linkRows, <<>>)

\* error.message of what a statement of the Registry throws while the database
\* cannot be used, and of the TypeError of reading a property of undefined
RegistryErrorMessage == "SQLITE_BUSY: database is locked"
TypeErrorMessage == "Cannot read properties of undefined (reading 'intent')"

\* the Registry throws on every statement of this request
RegistryThrows(r) == r.registry = "throws"

\* catch (error) { res.status(500).json({requestId, payload: {errorCode: 'hardError',
\*                                        debugString: error.message}}) }
Caught(r, linkRows, message) ==
    Handled(Response(500, r.requestId,
                     [errorCode |-> "hardError", debugString |-> message]),
            linkRows, <<>>)

handleSync(r, deviceRows, linkRows, t) ==
    LET agentUserId == extractAgentUserId(r)
        accountLink == findByAgentUserId(linkRows, agentUserId)
    IN  IF agentUserId = Null THEN AuthFailure(r, linkRows)
        ELSE IF RegistryThrows(r) THEN Caught(r, linkRows, RegistryErrorMessage)
        ELSE IF accountLink = Null THEN AuthFailure(r, linkRows)
        ELSE LET found == findAllForSync(deviceRows, accountLink.user_id)
                 googleDevices == [i \in DOMAIN found |-> convertToGoogleDevice(found[i])]
             IN  Handled(Response(200, r.requestId,
                                  [agentUserId |-> agentUserId, devices |-> googleDevices]),
                         updateLastSync(linkRows, agentUserId, t), <<>>)

\* deviceStates[deviceId] = entry
Put(m, k, v) == [x \in (DOMAIN m) \cup {k} |-> IF x = k THEN v ELSE m[x]]

DeviceNotFound == [status |-> "ERROR", errorCode |-> "deviceNotFound"]
HardError == [status |-> "ERROR", errorCode |-> "hardError"]

\* { status: 'SUCCESS', online: device.is_online === 1, ...convertToGoogleState(...) }
QuerySuccess(device, telemetry, attributes) ==
    LET st == convertToGoogleState(device, telemetry, attributes)
        online == (device.is_online = 1)
    IN  IF "currentFanSpeedSetting" \in DOMAIN st
        THEN [status |-> "SUCCESS", online |-> online, on |-> st.on,
              currentFanSpeedSetting |-> st.currentFanSpeedSetting]
        ELSE [status |-> "SUCCESS", online |-> online, on |-> st.on]

\* QueryDevice without the ownership comparison
QueryDevice_NoOwnerCheck(reqDevice, deviceRows, accountLink, acc) ==
    LET deviceId == reqDevice.id
        device == findByUuid(deviceRows, deviceId)
    IN  IF device = Null
        THEN [acc EXCEPT !.states = Put(acc.states, deviceId, DeviceNotFound)]
        ELSE [states |-> Put(acc.states, deviceId,
                             QuerySuccess(device, getLatestTelemetry(reqDevice.telemetry),
                                          getDeviceAttributes(reqDevice.attributes))),
              calls |-> acc.calls \o
                        <<[call |-> "telemetry", dev |-> device.thingsboard_device_id],
                          [call |-> "attributes", dev |-> device.thingsboard_device_id]>>]

\* the body of the loop over the requested devices
QueryDevice(reqDevice, deviceRows, accountLink, acc) ==
    LET deviceId == reqDevice.id
        device == findByUuid(deviceRows, deviceId)
    IN  IF device = Null \/ device.owner_user_id # accountLink.user_id
        THEN [acc EXCEPT !.states = Put(acc.states, deviceId, DeviceNotFound)]
        ELSE LET telemetry == getLatestTelemetry(reqDevice.telemetry)
                 attributes == getDeviceAttributes(reqDevice.attributes)
             IN  [states |-> Put(acc.states, deviceId,
                                 QuerySuccess(device, telemetry, attributes)),
                  calls |-> acc.calls \o
                            <<[call |-> "telemetry", dev |-> device.thingsboard_device_id],
                              [call |-> "attributes", dev |-> device.thingsboard_device_id]>>]

RECURSIVE QueryLoop(_, _, _, _)
QueryLoop(requestedDevices, deviceRows, accountLink, acc) ==
    IF requestedDevices = <<>> THEN acc
    ELSE QueryLoop(Tail(requestedDevices), deviceRows, accountLink,
                   QueryDevice(Head(requestedDevices), deviceRows, accountLink, acc))

\* the handler has not answered: it awaits a call that never returns
Pending(linkRows, calls) == Handled([code |-> 0], linkRows, calls)

\* the items of a QUERY at which the handler would await a call for ever
QueryStuckAt(requestedDevices, deviceRows, accountLink) ==
    {i \in DOMAIN requestedDevices :
        LET device == findByUuid(deviceRows, requestedDevices[i].id)
        IN  /\ device # Null
            /\ device.owner_user_id = accountLink.user_id
            /\ GwHang \in {requestedDevices[i].telemetry, requestedDevices[i].attributes}}

handleQuery(r, deviceRows, linkRows) ==
    LET agentUserId == extractAgentUserId(r)
        accountLink == findByAgentUserId(linkRows, agentUserId)
    IN  IF agentUserId = Null THEN AuthFailure(r, linkRows)
        ELSE IF RegistryThrows(r) THEN Caught(r, linkRows, RegistryErrorMessage)
        ELSE IF accountLink = Null THEN AuthFailure(r, linkRows)
        ELSE LET stuck == QueryStuckAt(r.devices, deviceRows, accountLink)
             IN  IF stuck # {}
                 THEN LET i == CHOOSE k \in stuck : \A j \in stuck : k <= j
                          before == QueryLoop(SubSeq(r.devices, 1, i - 1), deviceRows,
                                              accountLink, [states |-> <<>>, calls |-> <<>>])
                          dev == findByUuid(deviceRows, r.devices[i].id).thingsboard_device_id
                      IN  Pending(linkRows,
                                  before.calls \o
                                  (IF r.devices[i].telemetry = GwHang
                                   THEN <<[call |-> "telemetry", dev |-> dev]>>
                                   ELSE <<[call |-> "telemetry", dev |-> dev],
                                          [call |-> "attributes", dev |-> dev]>>))
                 ELSE LET done == QueryLoop(r.devices, deviceRows, accountLink,
                                            [states |-> <<>>, calls |-> <<>>])
                      IN  Handled(Response(200, r.requestId, [devices |-> done.states]),
                                  linkRows, done.calls)

ExecError(deviceId, code) == [ids |-> <<deviceId>>, status |-> "ERROR", errorCode |-> code]

\* a success entry reporting the stored is_online of a device never seen online
ExecSuccess_StoredOnline(deviceId, resultState) ==
    [ids |-> <<deviceId>>, status |-> "SUCCESS",
     states |-> CASE "on" \in DOMAIN resultState ->
                       [online |-> FALSE, on |-> resultState.on]
                  [] "currentFanSpeedSetting" \in DOMAIN resultState ->
                       [online |-> FALSE,
                        currentFanSpeedSetting |-> resultState.currentFanSpeedSetting]
                  [] OTHER ->
                       [online |-> FALSE, brightness |-> resultState.brightness]]

\* { ids: [deviceId], status: 'SUCCESS', states: { online: true, ...rpcCommand.resultState } }
ExecSuccess(deviceId, resultState) ==
    [ids |-> <<deviceId>>, status |-> "SUCCESS",
     states |-> CASE "on" \in DOMAIN resultState ->
                       [online |-> TRUE, on |-> resultState.on]
                  [] "currentFanSpeedSetting" \in DOMAIN resultState ->
                       [online |-> TRUE,
                        currentFanSpeedSetting |-> resultState.currentFanSpeedSetting]
                  [] OTHER ->
                       [online |-> TRUE, brightness |-> resultState.brightness]]

\* the loop over the executions leaving the device at an unsupported command
RECURSIVE ExecutionLoop_StopAtUnsupported(_, _, _, _, _)
ExecutionLoop_StopAtUnsupported(execution, dbDevice, deviceId, fails, acc) ==
    IF execution = <<>> THEN acc
    ELSE LET e == Head(execution)
             rpcCommand == convertGoogleCommandToRpc(e.command, e.params, dbDevice)
         IN  IF rpcCommand # Null
             THEN LET n == Len(acc.calls) + 1
                      sent == sendRpcCommand(IF n \in fails THEN GwError ELSE GwAck)
                      calls == Append(acc.calls,
                                      [call |-> "rpc", dev |-> dbDevice.thingsboard_device_id,
                                       method |-> rpcCommand.method,
                                       params |-> rpcCommand.params])
                  IN  IF sent.threw
                      THEN [results |-> Append(acc.results, ExecError(deviceId, "hardError")),
                            calls |-> calls]
                      ELSE ExecutionLoop_StopAtUnsupported(Tail(execution), dbDevice, deviceId,
                               fails,
                               [results |-> Append(acc.results,
                                               ExecSuccess(deviceId, rpcCommand.resultState)),
                                calls |-> calls])
             ELSE [acc EXCEPT !.results =
                       Append(acc.results, ExecError(deviceId, "functionNotSupported"))]

\* for (const execution of command.execution), inside the try block of one
\* device: a throw of sendRpcCommand leaves the loop for the catch block.
\* The n-th RPC of the request fails when n is in fails.
RECURSIVE ExecutionLoop(_, _, _, _, _)
ExecutionLoop(execution, dbDevice, deviceId, fails, acc) ==
    IF execution = <<>> THEN acc
    ELSE LET e == Head(execution)
             rpcCommand == convertGoogleCommandToRpc(e.command, e.params, dbDevice)
         IN  IF rpcCommand # Null
             THEN LET n == Len(acc.calls) + 1
                      sent == sendRpcCommand(IF n \in fails THEN GwError ELSE GwAck)
                      calls == Append(acc.calls,
                                      [call |-> "rpc", dev |-> dbDevice.thingsboard_device_id,
                                       method |-> rpcCommand.method,
                                       params |-> rpcCommand.params])
                  IN  IF sent.threw
                      THEN [results |-> Append(acc.results, ExecError(deviceId, "hardError")),
                            calls |-> calls]
                      ELSE ExecutionLoop(Tail(execution), dbDevice, deviceId, fails,
                               [results |-> Append(acc.results,
                                               ExecSuccess(deviceId, rpcCommand.resultState)),
                                calls |-> calls])
             ELSE ExecutionLoop(Tail(execution), dbDevice, deviceId, fails,
                      [acc EXCEPT !.results =
                           Append(acc.results, ExecError(deviceId, "functionNotSupported"))])

\* the body of the loop over the devices of one command group
ExecDevice(deviceId, command, deviceRows, accountLink, fails, acc) ==
    LET dbDevice == findByUuid(deviceRows, deviceId)
    IN  IF dbDevice = Null \/ dbDevice.owner_user_id # accountLink.user_id
        THEN [acc EXCEPT !.results = Append(acc.results, ExecError(deviceId, "deviceNotFound"))]
        ELSE ExecutionLoop(command.execution, dbDevice, deviceId, fails, acc)

RECURSIVE ExecDeviceLoop(_, _, _, _, _, _)
ExecDeviceLoop(devs, command, deviceRows, accountLink, fails, acc) ==
    IF devs = <<>> THEN acc
    ELSE ExecDeviceLoop(Tail(devs), command, deviceRows, accountLink, fails,
             ExecDevice(Head(devs), command, deviceRows, accountLink, fails, acc))

RECURSIVE ExecCommandLoop(_, _, _, _, _)
ExecCommandLoop(commands, deviceRows, accountLink, fails, acc) ==
    IF commands = <<>> THEN acc
    ELSE ExecCommandLoop(Tail(commands), deviceRows, accountLink, fails,
             ExecDeviceLoop(Head(commands).devices, Head(commands), deviceRows,
                            accountLink, fails, acc))

handleExecute(r, deviceRows, linkRows) ==
    LET agentUserId == extractAgentUserId(r)
        accountLink == findByAgentUserId(linkRows, agentUserId)
    IN  IF agentUserId = Null THEN AuthFailure(r, linkRows)
        ELSE IF RegistryThrows(r) THEN Caught(r, linkRows, RegistryErrorMessage)
        ELSE IF accountLink = Null THEN AuthFailure(r, linkRows)
        ELSE LET done == ExecCommandLoop(r.commands, deviceRows, accountLink, r.fails,
                                         [results |-> <<>>, calls |-> <<>>])
                 \* the RPCs of the request that never return, among those sent
                 stuck == r.hangs \cap DOMAIN done.calls
             IN  IF stuck # {}
                 THEN Pending(linkRows,
                              SubSeq(done.calls, 1, CHOOSE k \in stuck : \A j \in stuck : k <= j))
                 ELSE Handled(Response(200, r.requestId, [commands |-> done.results]),
                              linkRows, done.calls)

\* handleDisconnect answering authFailure when it finds no active link
handleDisconnect_Leaky(r, linkRows) ==
    LET agentUserId == extractAgentUserId(r)
    IN  IF agentUserId = Null \/ findByAgentUserId(linkRows, agentUserId) = Null
        THEN AuthFailure(r, linkRows)
        ELSE Handled(Response(200, r.requestId, EmptyPayload),
                     disconnect(linkRows, agentUserId), <<>>)

handleDisconnect(r, linkRows) ==
    LET agentUserId == extractAgentUserId(r)
    IN  IF agentUserId = Null
        THEN Handled(Response(200, r.requestId, EmptyPayload), linkRows, <<>>)
        \* catch (error) { return res.json({requestId, payload: {}}) }
        ELSE IF RegistryThrows(r)
        THEN Handled(Response(200, r.requestId, EmptyPayload), linkRows, <<>>)
        ELSE Handled(Response(200, r.requestId, EmptyPayload),
                     disconnect(linkRows, agentUserId), <<>>)

\* the deployment: process.env.NODE_ENV as the setup guide configures it
NODE_ENV == "production"

\* the global error handler of the application, which answers the requests
\* whose body express.json() could not parse
globalErrorHandler(error, linkRows) ==
    Handled(IF NODE_ENV = "production"
            THEN [code |-> error.status, error |-> error.name,
                  message |-> "An error occurred"]
            ELSE [code |-> error.status, error |-> error.name,
                  message |-> error.message, stack |-> error.stack],
            linkRows, <<>>)

BodyParseError ==
    [status |-> 400, name |-> "SyntaxError",
     message |-> "Unexpected token in JSON", stack |-> "SyntaxError: at parse"]

\* the endpoint without its test of the envelope
Fulfillment_NoFormatCheck(r, deviceRows, linkRows, t) ==
    CASE r.intent = "SYNC" -> handleSync(r, deviceRows, linkRows, t)
      [] r.intent = "QUERY" -> handleQuery(r, deviceRows, linkRows)
      [] r.intent = "EXECUTE" -> handleExecute(r, deviceRows, linkRows)
      [] r.intent = "DISCONNECT" -> handleDisconnect(r, linkRows)
      [] OTHER -> Handled(Response(400, r.requestId, [errorCode |-> "notSupported"]),
                          linkRows, <<>>)

\* the endpoint sending an intent it does not know to handleDisconnect
Fulfillment_DefaultDisconnect(r, deviceRows, linkRows, t) ==
    IF r.inputs = "unparsed"
    THEN globalErrorHandler(BodyParseError, linkRows)
    ELSE IF r.requestId = "" \/ r.inputs = "missing" \/ r.inputs = "object"
    THEN Handled([code |-> 400, error |-> "Invalid request format"], linkRows, <<>>)
    ELSE IF r.inputs = "empty"
    THEN Caught(r, linkRows, TypeErrorMessage)
    ELSE CASE r.intent = "SYNC" -> handleSync(r, deviceRows, linkRows, t)
           [] r.intent = "QUERY" -> handleQuery(r, deviceRows, linkRows)
           [] r.intent = "EXECUTE" -> handleExecute(r, deviceRows, linkRows)
           [] OTHER -> handleDisconnect(r, linkRows)

\* router.post('/fulfillment').  requestId "" stands for an absent (or empty)
\* requestId; inputs is "list" (a list with a first input), "empty" (a list
\* without one), "object" (not a list), "missing", or "unparsed" (the body
\* is not JSON).
Fulfillment(r, deviceRows, linkRows, t) ==
    IF r.inputs = "unparsed"
    THEN globalErrorHandler(BodyParseError, linkRows)
    ELSE IF r.requestId = "" \/ r.inputs = "missing" \/ r.inputs = "object"
    THEN Handled([code |-> 400, error |-> "Invalid request format"], linkRows, <<>>)
    \* inputs[0] is undefined: input.intent throws inside the try block
    ELSE IF r.inputs = "empty"
    THEN Caught(r, linkRows, TypeErrorMessage)
    ELSE CASE r.intent = "SYNC" -> handleSync(r, deviceRows, linkRows, t)
           [] r.intent = "QUERY" -> handleQuery(r, deviceRows, linkRows)
           [] r.intent = "EXECUTE" -> handleExecute(r, deviceRows, linkRows)
           [] r.intent = "DISCONNECT" -> handleDisconnect(r, linkRows)
           [] OTHER -> Handled(Response(400, r.requestId, [errorCode |-> "notSupported"]),
                               linkRows, <<>>)

----------------------------------------------------------------------------
(* services/thingsboard.service.js : the cache of the admin token.  A call  *)
(* of getAdminToken runs to its await of login in one step, and from the    *)
(* answer of the login to its return in another.                            *)

\* the requests that may be inside getAdminToken at the same time
Callers == {1, 2}

\* login: expiresIn of the token it returns, in seconds
expiresIn == 3600

\* the token ThingsBoard answers to its n-th login
AdminJwt(n) == [jwt |-> n]

\* the positions of a caller: outside getAdminToken, awaiting login (the
\* n-th ThingsBoard received), returned with a token, or left by the error
\* login threw
Idle == [pc |-> "idle"]
AwaitingLogin(n) == [pc |-> "login", n |-> n]
Returned(token) == [pc |-> "returned", token |-> token]
Threw == [pc |-> "threw", message |-> "ThingsBoard authentication failed"]

\* Date.now() + (expiresIn * 1000) - 60000
ExpiryOf(t) == Number(t + (expiresIn * 1000) - 60000)

\* the test of the cache with "<=" for "<"
CacheIsFresh_Inclusive(token, expiry, t) ==
    token # Null /\ expiry # Null /\ expiry.number # 0 /\ t <= expiry.number

\* this.adminToken && this.adminTokenExpiry && Date.now() < this.adminTokenExpiry
CacheIsFresh(token, expiry, t) ==
    /\ token # Null
    /\ expiry # Null
    /\ expiry.number # 0
    /\ t < expiry.number

----------------------------------------------------------------------------
(* device routes : list, details, delete and control.  A handler yields the *)
(* response, the device rows it leaves and the Gateway calls it made.       *)

Served(response, deviceRows, calls) ==
    [resp |-> response, devices |-> deviceRows, calls |-> calls]

\* the answer of the authenticate middleware to a request it stops
Unauthorized == [code |-> 401, error |-> "Unauthorized"]

DeviceNotFoundError == [code |-> 404, error |-> "Device not found"]
AccessDenied == [code |-> 403, error |-> "Access denied"]

\* the fields of a device both the list and the details show
DeviceView(d) ==
    [deviceUuid |-> d.device_uuid, capabilities |-> d.capabilities,
     isOnline |-> (d.is_online = 1), provisionedAt |-> d.provisioned_at]

\* router.get('/list', authenticate, ...)
listDevices(r, deviceRows) ==
    LET user == authenticate(r.token)
    IN  IF user = Null THEN Served(Unauthorized, deviceRows, <<>>)
        ELSE LET found == findByOwner(deviceRows, user.id)
             IN  Served([code |-> 200, success |-> TRUE,
                         devices |-> [i \in DOMAIN found |-> DeviceView(found[i])]],
                        deviceRows, <<>>)

\* router.get('/:deviceUuid', authenticate, ...)
getDevice(r, deviceRows) ==
    LET user == authenticate(r.token)
        device == findByUuid(deviceRows, r.deviceUuid)
    IN  IF user = Null THEN Served(Unauthorized, deviceRows, <<>>)
        ELSE IF device = Null THEN Served(DeviceNotFoundError, deviceRows, <<>>)
        ELSE IF device.owner_user_id # user.id THEN Served(AccessDenied, deviceRows, <<>>)
        ELSE LET telemetry == getLatestTelemetry(r.telemetry)
                 attributes == getDeviceAttributes(r.attributes)
             IN  Served([code |-> 200, success |-> TRUE,
                         device |-> [view |-> DeviceView(device), telemetry |-> telemetry,
                                     attributes |-> attributes]],
                        deviceRows,
                        <<[call |-> "telemetry", dev |-> device.thingsboard_device_id],
                          [call |-> "attributes", dev |-> device.thingsboard_device_id]>>)

\* router.delete('/:deviceUuid', authenticate, ...)
deleteDevice(r, deviceRows) ==
    LET user == authenticate(r.token)
        device == findByUuid(deviceRows, r.deviceUuid)
    IN  IF user = Null THEN Served(Unauthorized, deviceRows, <<>>)
        ELSE IF device = Null THEN Served(DeviceNotFoundError, deviceRows, <<>>)
        ELSE IF device.owner_user_id # user.id THEN Served(AccessDenied, deviceRows, <<>>)
        ELSE Served([code |-> 200, success |-> TRUE,
                     message |-> "Device deleted successfully"],
                    DeviceDelete(deviceRows, r.deviceUuid), <<>>)

\* the control route without the ownership comparison
controlDevice_NoOwnerCheck(r, deviceRows) ==
    LET user == authenticate(r.token)
        device == findByUuid(deviceRows, r.deviceUuid)
    IN  IF user = Null THEN Served(Unauthorized, deviceRows, <<>>)
        ELSE IF r.method = "" \/ r.params = Null
        THEN Served([code |-> 400, errors |-> "validation"], deviceRows, <<>>)
        ELSE IF device = Null THEN Served(DeviceNotFoundError, deviceRows, <<>>)
        ELSE LET sent == sendRpcCommand(r.rpc)
                 calls == <<[call |-> "rpc", dev |-> device.thingsboard_device_id,
                             method |-> r.method, params |-> r.params]>>
             IN  IF sent.threw
                 THEN Served([code |-> 500, error |-> "Device control failed"],
                             deviceRows, calls)
                 ELSE Served([code |-> 200, success |-> TRUE, result |-> sent.data],
                             deviceRows, calls)

\* router.post('/:deviceUuid/control', authenticate, [validators], ...).  An
\* absent method is "", absent params are Null.
controlDevice(r, deviceRows) ==
    LET user == authenticate(r.token)
        device == findByUuid(deviceRows, r.deviceUuid)
    IN  IF user = Null THEN Served(Unauthorized, deviceRows, <<>>)
        ELSE IF r.method = "" \/ r.params = Null
        THEN Served([code |-> 400, errors |-> "validation"], deviceRows, <<>>)
        ELSE IF device = Null THEN Served(DeviceNotFoundError, deviceRows, <<>>)
        ELSE IF device.owner_user_id # user.id THEN Served(AccessDenied, deviceRows, <<>>)
        ELSE LET sent == sendRpcCommand(r.rpc)
                 calls == <<[call |-> "rpc", dev |-> device.thingsboard_device_id,
                             method |-> r.method, params |-> r.params]>>
             IN  IF sent.threw
                 \* catch (error) { res.status(500).json({error: 'Device control failed', ...}) }
                 THEN Served([code |-> 500, error |-> "Device control failed"],
                             deviceRows, calls)
                 ELSE Served([code |-> 200, success |-> TRUE, result |-> sent.data],
                             deviceRows, calls)

\* the device routes, by the operation of the request
DeviceApi(r, deviceRows) ==
    CASE r.op = "list" -> listDevices(r, deviceRows)
      [] r.op = "get" -> getDevice(r, deviceRows)
      [] r.op = "delete" -> deleteDevice(r, deviceRows)
      [] r.op = "control" -> controlDevice(r, deviceRows)

----------------------------------------------------------------------------
(* OAuth routes : the token endpoint *)

\* process.env.OAUTH_CLIENT_ID and OAUTH_CLIENT_SECRET, as configured
OAUTH_CLIENT_ID == "google-client-id"
OAUTH_CLIENT_SECRET == "google-client-secret"

OAuthError(code, error) == [code |-> code, error |-> error]

\* the token endpoint without the comparison of the redirect URIs
TokenEndpoint_NoRedirectCheck(body, linkRows, t) ==
    IF body.client_id # OAUTH_CLIENT_ID \/ body.client_secret # OAUTH_CLIENT_SECRET
    THEN Handled(OAuthError(401, "invalid_client"), linkRows, <<>>)
    ELSE IF body.grant_type = "authorization_code"
    THEN IF body.code = Null \/ body.redirect_uri = ""
         THEN Handled(OAuthError(400, "invalid_request"), linkRows, <<>>)
         ELSE LET authData == verifyAuthCode(body.code)
              IN  IF authData = Null
                  THEN Handled(OAuthError(400, "invalid_grant"), linkRows, <<>>)
                  ELSE LET userId == authData.uid
                           agentUserId == [u |-> userId, t |-> t]
                           stored == createOrUpdate(linkRows, userId, agentUserId, t)
                       IN  IF stored.threw
                           THEN Handled(OAuthError(500, "server_error"), linkRows, <<>>)
                           ELSE Handled([code |-> 200, token_type |-> "Bearer",
                                         access_token |->
                                             generateAccessToken(userId, agentUserId),
                                         refresh_token |->
                                             generateRefreshToken(userId, agentUserId)],
                                        stored.rows, <<>>)
    ELSE IF body.grant_type = "refresh_token"
    THEN IF body.refresh_token = Null
         THEN Handled(OAuthError(400, "invalid_request"), linkRows, <<>>)
         ELSE LET tokenData == verifyRefreshToken(body.refresh_token)
              IN  IF tokenData = Null
                  THEN Handled(OAuthError(400, "invalid_grant"), linkRows, <<>>)
                  ELSE LET stored == createOrUpdate(linkRows, tokenData.uid, tokenData.sub, t)
                       IN  IF stored.threw
                           THEN Handled(OAuthError(500, "server_error"), linkRows, <<>>)
                           ELSE Handled([code |-> 200, token_type |-> "Bearer",
                                         access_token |->
                                             generateAccessToken(tokenData.uid, tokenData.sub)],
                                        stored.rows, <<>>)
    ELSE Handled(OAuthError(400, "unsupported_grant_type"), linkRows, <<>>)

\* router.post('/token').  A body field that is absent is Null (code,
\* refresh_token) or "" (redirect_uri); the agent id of a new link is made of
\* the user id and the time of the exchange.
TokenEndpoint(body, linkRows, t) ==
    IF body.client_id # OAUTH_CLIENT_ID \/ body.client_secret # OAUTH_CLIENT_SECRET
    THEN Handled(OAuthError(401, "invalid_client"), linkRows, <<>>)
    ELSE IF body.grant_type = "authorization_code"
    THEN IF body.code = Null \/ body.redirect_uri = ""
         THEN Handled(OAuthError(400, "invalid_request"), linkRows, <<>>)
         ELSE LET authData == verifyAuthCode(body.code)
              IN  IF authData = Null
                  THEN Handled(OAuthError(400, "invalid_grant"), linkRows, <<>>)
                  ELSE IF authData.redirectUri # body.redirect_uri
                  THEN Handled(OAuthError(400, "invalid_grant"), linkRows, <<>>)
                  ELSE LET userId == authData.uid
                           agentUserId == [u |-> userId, t |-> t]
                           accessToken == generateAccessToken(userId, agentUserId)
                           refreshToken == generateRefreshToken(userId, agentUserId)
                           stored == createOrUpdate(linkRows, userId, agentUserId, t)
                       IN  \* the INSERT threw: catch (error) { res.status(500) }
                           IF stored.threw
                           THEN Handled(OAuthError(500, "server_error"), linkRows, <<>>)
                           ELSE Handled([code |-> 200, token_type |-> "Bearer",
                                         access_token |-> accessToken,
                                         refresh_token |-> refreshToken],
                                        stored.rows, <<>>)
    ELSE IF body.grant_type = "refresh_token"
    THEN IF body.refresh_token = Null
         THEN Handled(OAuthError(400, "invalid_request"), linkRows, <<>>)
         ELSE LET tokenData == verifyRefreshToken(body.refresh_token)
              IN  IF tokenData = Null
                  THEN Handled(OAuthError(400, "invalid_grant"), linkRows, <<>>)
                  ELSE LET userId == tokenData.uid
                           agentUserId == tokenData.sub
                           newAccessToken == generateAccessToken(userId, agentUserId)
                           stored == createOrUpdate(linkRows, userId, agentUserId, t)
                       IN  IF stored.threw
                           THEN Handled(OAuthError(500, "server_error"), linkRows, <<>>)
                           ELSE Handled([code |-> 200, token_type |-> "Bearer",
                                         access_token |-> newAccessToken],
                                        stored.rows, <<>>)
    ELSE Handled(OAuthError(400, "unsupported_grant_type"), linkRows, <<>>)

----------------------------------------------------------------------------
(* Requests *)

NoReq == [ep |-> "none"]
NoResp == [code |-> 0]

FulfillmentRequest(intent, tok, devs, cmds, fails) ==
    [ep |-> "fulfillment", requestId |-> "r1", inputs |-> "list", registry |-> "ok",
     intent |-> intent,
     token |-> tok, devices |-> devs, commands |-> cmds, fails |-> fails, hangs |-> {}]

AgentsOf(linkRows) == {linkRows[i].google_agent_user_id : i \in DOMAIN linkRows}

\* the access tokens of the agent ids in the registry, in every status
AccessTokens(linkRows, statuses) ==
    {AccessToken(a.u, a, st) : a \in AgentsOf(linkRows), st \in statuses}

\* every bearer credential a caller may present
BearerInputs(linkRows) ==
    {MissingToken, SessionToken(1, "valid"), AccessToken(0, GhostAgent, "badsig")}
        \cup AccessTokens(linkRows, {"valid", "badsig", "expired"})

\* the credentials as Google presents them: none, or one this server issued
IssuedBearerInputs(linkRows) == {MissingToken} \cup AccessTokens(linkRows, {"valid"})

\* device ids a caller may name: those of the registry and an unknown one
DeviceIdInputs == 1..(Len(devices) + 1)

TelemetryOn == [device1_state |-> Reading(Number(1))]
TelemetryOffFan == [device1_state |-> Reading(Number(0)), fan_speed |-> Reading(Number(3))]

\* the lists ThingsBoard may answer for a state key and for fan_speed: no
\* reading, or a latest value that is a number, a boolean or a string
StateReadingInputs ==
    {<<>>} \cup {Reading(v) : v \in {Number(0), Number(1), Bool(FALSE), Bool(TRUE), Text("1")}}
FanReadingInputs == {<<>>, Reading(Number(0)), Reading(Number(3))}

\* the telemetry answers: every set of the keys with every list for each key
TelemetryKeyInputs == {"device1_state", "device2_state", "fan_speed"}

TelemetryInputs ==
    UNION {{t \in [K -> StateReadingInputs \cup FanReadingInputs] :
               \A k \in K : t[k] \in (IF k = "fan_speed" THEN FanReadingInputs
                                       ELSE StateReadingInputs)} :
           K \in SUBSET TelemetryKeyInputs}
AttributesData == [attributes |-> TRUE]

QueryItemInputs ==
    [id : DeviceIdInputs, telemetry : {GwError, TelemetryOn, TelemetryOffFan},
     attributes : {GwError, AttributesData}]

ExecutionInputs ==
    {[command |-> "OnOff", params |-> [on |-> TRUE]],
     [command |-> "SetFanSpeed", params |-> [fanSpeed |-> "speed_3"]]}

\* the executions put to the translators: both switch positions, labels of
\* the enumeration, labels outside it, a brightness and an unknown command
TranslateExecutionInputs ==
    {[command |-> "OnOff", params |-> [on |-> v]] : v \in BOOLEAN}
        \cup {[command |-> "SetFanSpeed", params |-> [fanSpeed |-> l]] :
                  l \in {"speed_0", "speed_3", "speed_5", "speed_9", "constructor"}}
        \cup {[command |-> "BrightnessAbsolute", params |-> [brightness |-> 50]],
              [command |-> "Reboot", params |-> <<>>]}

TranslateGroupInputs ==
    [devices : NonEmptySeqsUpTo(DeviceIdInputs, 1),
     execution : NonEmptySeqsUpTo(TranslateExecutionInputs, 1)]

\* groups of switch commands, the same one twice among them
RepeatGroupInputs ==
    [devices : NonEmptySeqsUpTo(DeviceIdInputs, MaxBatch),
     execution : NonEmptySeqsUpTo({[command |-> "OnOff", params |-> [on |-> v]] :
                                      v \in BOOLEAN}, MaxBatch)]

\* QUERY items whose Gateway calls may never return
HangQueryItemInputs ==
    [id : DeviceIdInputs, telemetry : {GwHang, GwError, TelemetryOn},
     attributes : {GwHang, AttributesData}]

CommandGroupInputs(n) ==
    [devices : NonEmptySeqsUpTo(DeviceIdInputs, n),
     execution : NonEmptySeqsUpTo(ExecutionInputs, n)]

\* the (device, command) pairs of a batch
RECURSIVE PairCount(_)
PairCount(commands) ==
    IF commands = <<>> THEN 0
    ELSE Len(Head(commands).devices) * Len(Head(commands).execution)
             + PairCount(Tail(commands))

\* which RPCs of a request the Gateway fails: none, one of them, or all
FailInputs(n) == {{}, 1..n} \cup {{k} : k \in 1..n}

\* the intents a caller may name, one of them unknown to the endpoint
IntentInputs == {"SYNC", "QUERY", "EXECUTE", "DISCONNECT", "IDENTIFY"}

\* the envelopes of a request: its requestId and the shape of its inputs
RequestIdInputs == {"r1", ""}
InputsInputs == {"list", "empty", "object", "missing", "unparsed"}
RegistryInputs == {"ok", "throws"}

\* the requests of every intent on batches of at most one item
BaseRequests(tokens) ==
    {FulfillmentRequest(i, tok, <<>>, <<>>, {}) :
        i \in IntentInputs \ {"QUERY", "EXECUTE"}, tok \in tokens}
    \cup {FulfillmentRequest("QUERY", tok, b, <<>>, {}) :
             tok \in tokens, b \in SeqsUpTo(QueryItemInputs, MaxAuthBatch)}
    \cup {FulfillmentRequest("EXECUTE", tok, <<>>, <<g>>, f) :
             tok \in tokens, g \in CommandGroupInputs(MaxAuthBatch), f \in FailInputs(1)}

\* the capability lists a device may be registered with: every set of the
\* labels the translators know and of one they do not, the empty list included
CapabilityLabels == {"light", "dimmer", "fan", "speed", "outlet", "thermostat"}

RECURSIVE ListOf(_)
ListOf(S) == IF S = {} THEN <<>>
             ELSE LET x == CHOOSE y \in S : TRUE IN <<x>> \o ListOf(S \ {x})

CapabilityInputs == {ListOf(S) : S \in SUBSET CapabilityLabels}

\* a request to a device route: its operation, bearer credential and device,
\* and the outcomes of the Gateway calls the route may make
DeviceRequest(op, tok, deviceUuid) ==
    [ep |-> "device", op |-> op, token |-> tok, deviceUuid |-> deviceUuid,
     method |-> "setDeviceState", params |-> [device_id |-> "device1", state |-> TRUE],
     telemetry |-> TelemetryOn, attributes |-> AttributesData, rpc |-> GwAck]

\* the session tokens a caller may present to the device routes
SessionInputs ==
    {MissingToken, SessionToken(1, "expired")} \cup {SessionToken(u, "valid") : u \in Users}

DeviceOpInputs == {"list", "get", "delete", "control"}

\* the requests to the device routes: every operation on every device id,
\* and control requests the validators refuse or the Gateway fails
DeviceRequestInputs(tokens) ==
    {DeviceRequest(op, tok, id) : op \in DeviceOpInputs, tok \in tokens, id \in DeviceIdInputs}
    \cup {[DeviceRequest("control", tok, id) EXCEPT !.rpc = GwError] :
             tok \in tokens, id \in DeviceIdInputs}
    \cup {[DeviceRequest("control", tok, id) EXCEPT !.method = ""] :
             tok \in tokens, id \in DeviceIdInputs}
    \cup {[DeviceRequest("control", tok, id) EXCEPT !.params = Null] :
             tok \in tokens, id \in DeviceIdInputs}

\* the redirect URIs a client may name
RedirectUriInputs == {"https://a.example/cb", "https://b.example/cb"}

TokenBody(grant, code, uri, refresh) ==
    [grant_type |-> grant, code |-> code, redirect_uri |-> uri,
     client_id |-> OAUTH_CLIENT_ID, client_secret |-> OAUTH_CLIENT_SECRET,
     refresh_token |-> refresh]

TokenRequest(body) == [ep |-> "token", body |-> body]

\* the refresh tokens of the agent ids in the registry
RefreshTokens(linkRows, statuses) ==
    {RefreshToken(a.u, a, st) : a \in AgentsOf(linkRows), st \in statuses}

\* the tokens this server has signed for another purpose than the one asked
OtherPurposeTokens(linkRows, typ) ==
    {tok \in {SessionToken(1, "valid"), AuthCode(1, "https://a.example/cb", "valid")}
               \cup AccessTokens(linkRows, {"valid"}) \cup RefreshTokens(linkRows, {"valid"}) :
        tok.typ # typ}

\* what a client may send as code: nothing, the code of a user for a redirect
\* URI, a code that is expired or not signed by this server, another token
CodeInputs(linkRows) ==
    {Null}
        \cup {AuthCode(u, uri, "valid") : u \in Users, uri \in RedirectUriInputs}
        \cup {AuthCode(1, "https://a.example/cb", st) : st \in {"expired", "badsig"}}
        \cup OtherPurposeTokens(linkRows, "auth_code")

\* what a client may send as refresh_token
RefreshInputs(linkRows) ==
    {Null}
        \cup RefreshTokens(linkRows, {"valid", "expired", "badsig"})
        \cup OtherPurposeTokens(linkRows, "refresh_token")

\* one unexpired token of each purpose this server signs: session tokens,
\* an authorization code, and the access and refresh tokens of the links
PurposeTokenInputs(linkRows) ==
    {SessionToken(u, "valid") : u \in Users}
        \cup {AuthCode(1, "https://a.example/cb", "valid")}
        \cup AccessTokens(linkRows, {"valid"})
        \cup RefreshTokens(linkRows, {"valid"})

\* bodies of the code grant, of the refresh grant, and the bodies the endpoint
\* refuses before it looks at a grant
CodeGrantInputs(linkRows) ==
    {TokenBody("authorization_code", code, uri, Null) :
        code \in CodeInputs(linkRows), uri \in RedirectUriInputs \cup {""}}

RefreshGrantInputs(linkRows) ==
    {TokenBody("refresh_token", Null, "", tok) : tok \in RefreshInputs(linkRows)}

\* client id and secret of which one at least is not the configured one
WrongClientInputs ==
    {<<OAUTH_CLIENT_ID, "guess">>, <<"another-client", OAUTH_CLIENT_SECRET>>,
     <<"another-client", "guess">>}

RefusedBodyInputs(linkRows) ==
    {[b EXCEPT !.client_id = c[1], !.client_secret = c[2]] :
        b \in {TokenBody("authorization_code", AuthCode(1, "https://a.example/cb", "valid"),
                         "https://a.example/cb", Null)}
                  \cup {TokenBody("refresh_token", Null, "", tok) :
                           tok \in RefreshTokens(linkRows, {"valid"})},
        c \in WrongClientInputs}
    \cup {TokenBody("password", Null, "", Null)}

----------------------------------------------------------------------------
(* Initial state and actions *)

Init ==
    /\ now = 0
    /\ devices = <<>>
    /\ links = <<>>
    /\ req = NoReq
    /\ resp = NoResp
    /\ gwCalls = <<>>
    /\ adminToken = Null
    /\ adminTokenExpiry = Null
    /\ callers = [c \in Callers |-> Idle]
    /\ tbLogins = 0

\* time passes
Tick ==
    /\ req = NoReq
    /\ now < MaxTime
    /\ now' = now + 1
    /\ UNCHANGED <<devices, links, req, resp, gwCalls, service>>

\* POST /api/device/register
Register(tok, caps, gwOutcome) ==
    /\ req = NoReq
    /\ LET user == authenticate(tok)
       IN  devices' = IF user = Null \/ gwOutcome = GwError
                      THEN devices
                      ELSE DeviceCreate(devices, user.id, caps, now)
    /\ UNCHANGED <<now, links, req, resp, gwCalls, service>>

\* DELETE /api/device/:deviceUuid
DeleteDevice(tok, deviceUuid) ==
    /\ req = NoReq
    /\ LET user == authenticate(tok)
           device == findByUuid(devices, deviceUuid)
       IN  devices' = IF user = Null \/ device = Null THEN devices
                      ELSE IF device.owner_user_id # user.id THEN devices
                      ELSE DeviceDelete(devices, deviceUuid)
    /\ UNCHANGED <<now, links, req, resp, gwCalls, service>>

\* POST /oauth/token, grant_type authorization_code, with the code of userId
TokenExchange(userId) ==
    /\ req = NoReq
    /\ LET agentUserId == [u |-> userId, t |-> now]
           stored == createOrUpdate(links, userId, agentUserId, now)
       IN  links' = stored.rows
    /\ UNCHANGED <<now, devices, req, resp, gwCalls, service>>

\* POST /smarthome/fulfillment: the request is handled from its arrival to
\* its response in one step
Fulfill(r) ==
    /\ req = NoReq
    /\ LET done == Fulfillment(r, devices, links, now)
       IN  /\ resp' = done.resp
           /\ links' = done.links
           /\ gwCalls' = done.calls
    /\ req' = r
    /\ UNCHANGED <<now, devices, service>>

\* POST /oauth/token: the request is handled from its arrival to its response
\* in one step
Token(body) ==
    /\ req = NoReq
    /\ LET done == TokenEndpoint(body, links, now)
       IN  /\ resp' = done.resp
           /\ links' = done.links
           /\ gwCalls' = done.calls
    /\ req' = TokenRequest(body)
    /\ UNCHANGED <<now, devices, service>>

\* a request to a device route, handled from its arrival to its response in
\* one step
Device(r) ==
    /\ req = NoReq
    /\ LET done == DeviceApi(r, devices)
       IN  /\ resp' = done.resp
           /\ devices' = done.devices
           /\ gwCalls' = done.calls
    /\ req' = r
    /\ UNCHANGED <<now, links, service>>

\* the response is out and the request is over: the server is idle again
Respond ==
    /\ req # NoReq
    /\ resp # NoResp
    /\ req' = NoReq /\ resp' = NoResp /\ gwCalls' = <<>>
    /\ UNCHANGED <<now, devices, links, service>>

\* time passes while the service is in use: a minute, or most of an hour
WaitInputs == {60000, 3480000}

Elapse(d) ==
    /\ now + d <= MaxServiceTime
    /\ now' = now + d
    /\ UNCHANGED <<devices, links, req, resp, gwCalls, service>>

\* getAdminToken, from its call to its return of the cached token or to its
\* await of login
GetAdminToken(c) ==
    /\ callers[c] = Idle
    /\ IF CacheIsFresh(adminToken, adminTokenExpiry, now)
       THEN /\ callers' = [callers EXCEPT ![c] = Returned(adminToken)]
            /\ UNCHANGED tbLogins
       ELSE /\ tbLogins < MaxLogins
            /\ tbLogins' = tbLogins + 1
            /\ callers' = [callers EXCEPT ![c] = AwaitingLogin(tbLogins + 1)]
    /\ UNCHANGED <<now, devices, links, req, resp, gwCalls, adminToken, adminTokenExpiry>>

\* getAdminToken, from the answer of login to its return: the token and the
\* expiry are stored and the token is returned
LoginSucceeds(c) ==
    /\ callers[c].pc = "login"
    /\ adminToken' = AdminJwt(callers[c].n)
    /\ adminTokenExpiry' = ExpiryOf(now)
    /\ callers' = [callers EXCEPT ![c] = Returned(adminToken')]
    /\ UNCHANGED <<now, devices, links, req, resp, gwCalls, tbLogins>>

\* login throws (no connection, an error response, an answer without token):
\* getAdminToken is left at its await
LoginFails(c) ==
    /\ callers[c].pc = "login"
    /\ callers' = [callers EXCEPT ![c] = Threw]
    /\ UNCHANGED <<now, devices, links, req, resp, gwCalls, adminToken, adminTokenExpiry,
                   tbLogins>>

\* the caller has its token or its error and is over
Leave(c) ==
    /\ callers[c].pc \in {"returned", "threw"}
    /\ callers' = [callers EXCEPT ![c] = Idle]
    /\ UNCHANGED <<now, devices, links, req, resp, gwCalls, adminToken, adminTokenExpiry,
                   tbLogins>>

RegisterOf(capabilitySets, maxRows) ==
    /\ Len(devices) < maxRows
    /\ \E u \in Users, caps \in capabilitySets, o \in {GwError, GwAck} :
          Register(SessionToken(u, "valid"), caps, o)
DeleteAny == \E u \in Users, id \in DOMAIN devices : DeleteDevice(SessionToken(u, "valid"), id)
TokenExchangeAny == Len(links) < MaxLinks /\ \E u \in Users : TokenExchange(u)

SyncOf(tokens) == \E tok \in tokens : Fulfill(FulfillmentRequest("SYNC", tok, <<>>, <<>>, {}))
DisconnectOf(tokens) ==
    \E tok \in tokens : Fulfill(FulfillmentRequest("DISCONNECT", tok, <<>>, <<>>, {}))
QueryOf(tokens, items, n) ==
    \E tok \in tokens, b \in SeqsUpTo(items, n) :
        Fulfill(FulfillmentRequest("QUERY", tok, b, <<>>, {}))
ExecuteOf(tokens, groups) ==
    \E tok \in tokens, g \in groups : \E fails \in FailInputs(PairCount(<<g>>)) :
        Fulfill(FulfillmentRequest("EXECUTE", tok, <<>>, <<g>>, fails))

\* a request of any intent in any envelope, with the Registry usable or not
EnvelopeOf(tokens) ==
    \E r \in BaseRequests(tokens), id \in RequestIdInputs, inputs \in InputsInputs,
       registry \in RegistryInputs :
        Fulfill([r EXCEPT !.requestId = id, !.inputs = inputs, !.registry = registry])

\* an EXECUTE some of whose RPCs never return
ExecuteHangOf(tokens, groups) ==
    \E tok \in tokens, g \in groups :
        \E fails \in FailInputs(PairCount(<<g>>)), hangs \in FailInputs(PairCount(<<g>>)) :
            Fulfill([FulfillmentRequest("EXECUTE", tok, <<>>, <<g>>, fails)
                        EXCEPT !.hangs = hangs])

DeviceOf(tokens) == \E r \in DeviceRequestInputs(tokens) : Device(r)

\* the grants of the token endpoint; the registry is bounded by the code grant
CodeGrantOf == Len(links) < MaxLinks /\ \E body \in CodeGrantInputs(links) : Token(body)
RefreshGrantOf == \E body \in RefreshGrantInputs(links) : Token(body)
RefusedTokenOf == \E body \in RefusedBodyInputs(links) : Token(body)

----------------------------------------------------------------------------
(* Specifications *)

\* every intent with every kind of bearer credential, on short batches
Next ==
    \/ Tick
    \/ RegisterOf({<<"outlet">>}, MaxAuthDevices)
    \/ TokenExchangeAny
    \/ SyncOf(BearerInputs(links))
    \/ QueryOf(BearerInputs(links),
               [id : DeviceIdInputs, telemetry : {TelemetryOn}, attributes : {AttributesData}],
               MaxAuthBatch)
    \/ ExecuteOf(BearerInputs(links), CommandGroupInputs(MaxAuthBatch))
    \/ DisconnectOf(BearerInputs(links))
    \/ Respond

Spec == Init /\ [][Next]_vars

\* SYNC against every registry, with the clock running
NextSync ==
    \/ Tick
    \/ RegisterOf({<<"outlet">>}, MaxSyncDevices)
    \/ DeleteAny
    \/ TokenExchangeAny
    \/ SyncOf(IssuedBearerInputs(links))
    \/ Respond

SpecSync == Init /\ [][NextSync]_vars

\* QUERY batches against every registry
NextQuery ==
    \/ RegisterOf({<<"outlet">>}, MaxDevices)
    \/ DeleteAny
    \/ TokenExchangeAny
    \/ QueryOf(IssuedBearerInputs(links), QueryItemInputs, MaxBatch)
    \/ Respond

SpecQuery == Init /\ [][NextQuery]_vars

\* EXECUTE batches against every registry
NextExecute ==
    \/ RegisterOf({<<"outlet">>}, MaxDevices)
    \/ DeleteAny
    \/ TokenExchangeAny
    \/ ExecuteOf(IssuedBearerInputs(links), CommandGroupInputs(MaxBatch))
    \/ Respond

SpecExecute == Init /\ [][NextExecute]_vars

\* SYNC and single-command EXECUTE against a device of every capability list
NextTranslate ==
    \/ RegisterOf(CapabilityInputs, MaxTranslateDevices)
    \/ TokenExchangeAny
    \/ SyncOf(IssuedBearerInputs(links))
    \/ ExecuteOf(IssuedBearerInputs(links), TranslateGroupInputs)
    \/ Respond

SpecTranslate == Init /\ [][NextTranslate]_vars

\* EXECUTE batches of switch commands against one device
NextRepeat ==
    \/ RegisterOf({<<"outlet">>}, MaxTranslateDevices)
    \/ DeleteAny
    \/ TokenExchangeAny
    \/ ExecuteOf(IssuedBearerInputs(links), RepeatGroupInputs)
    \/ Respond

SpecRepeat == Init /\ [][NextRepeat]_vars

\* every intent in every envelope, with and without a usable Registry
NextEnvelope ==
    \/ RegisterOf({<<"outlet">>}, MaxAuthDevices)
    \/ TokenExchangeAny
    \/ EnvelopeOf(IssuedBearerInputs(links))
    \/ Respond

SpecEnvelope == Init /\ [][NextEnvelope]_vars

\* QUERY and EXECUTE against a Gateway that may never answer.  The server
\* takes every step it can take: a handler that can go on does go on.
NextHang ==
    \/ RegisterOf({<<"outlet">>}, MaxAuthDevices)
    \/ TokenExchangeAny
    \/ QueryOf(IssuedBearerInputs(links), HangQueryItemInputs, MaxAuthBatch)
    \/ ExecuteHangOf(IssuedBearerInputs(links), CommandGroupInputs(MaxAuthBatch))
    \/ Respond

SpecHang == Init /\ [][NextHang]_vars /\ WF_vars(NextHang)

\* account linking: both grants of the token endpoint with every kind of
\* body, SYNC and DISCONNECT, with the clock running
NextLink ==
    \/ Tick
    \/ CodeGrantOf
    \/ RefreshGrantOf
    \/ RefusedTokenOf
    \/ SyncOf(IssuedBearerInputs(links))
    \/ DisconnectOf(IssuedBearerInputs(links))
    \/ Respond

SpecLink == Init /\ [][NextLink]_vars

\* the device routes and the three intents that name devices, against every
\* registry
NextDevice ==
    \/ RegisterOf({<<"outlet">>}, MaxDevices)
    \/ TokenExchangeAny
    \/ DeviceOf(SessionInputs)
    \/ SyncOf(IssuedBearerInputs(links))
    \/ QueryOf(IssuedBearerInputs(links),
               [id : DeviceIdInputs, telemetry : {TelemetryOn}, attributes : {AttributesData}],
               MaxAuthBatch)
    \/ ExecuteOf(IssuedBearerInputs(links), CommandGroupInputs(MaxAuthBatch))
    \/ Respond

SpecDevice == Init /\ [][NextDevice]_vars

\* QUERY of one device against every telemetry answer
NextState ==
    \/ RegisterOf({<<"outlet">>}, MaxTranslateDevices)
    \/ TokenExchangeAny
    \/ QueryOf(IssuedBearerInputs(links),
               [id : DeviceIdInputs, telemetry : {GwError} \cup TelemetryInputs,
                attributes : {GwError, AttributesData}],
               MaxAuthBatch)
    \/ Respond

SpecState == Init /\ [][NextState]_vars

\* concurrent calls of getAdminToken, with the clock running
NextService ==
    \/ \E d \in WaitInputs : Elapse(d)
    \/ \E c \in Callers : GetAdminToken(c)
    \/ \E c \in Callers : LoginSucceeds(c)
    \/ \E c \in Callers : LoginFails(c)
    \/ \E c \in Callers : Leave(c)

SpecService == Init /\ [][NextService]_vars

\* every endpoint that takes a token, with a token of every purpose
NextPurpose ==
    \/ RegisterOf({<<"outlet">>}, MaxAuthDevices)
    \/ DeviceOf(PurposeTokenInputs(links))
    \/ CodeGrantOf
    \/ RefreshGrantOf
    \/ SyncOf(PurposeTokenInputs(links))
    \/ QueryOf(PurposeTokenInputs(links),
               [id : DeviceIdInputs, telemetry : {TelemetryOn}, attributes : {AttributesData}],
               MaxAuthBatch)
    \/ Respond

SpecPurpose == Init /\ [][NextPurpose]_vars

----------------------------------------------------------------------------
(* Vocabulary of the properties *)

IsFulfillment(r) ==
    r # NoReq /\ r.ep = "fulfillment" /\ r.requestId # "" /\ r.inputs = "list"
Handling(intent) == IsFulfillment(req) /\ req.intent = intent
Answered(intent) == Handling(intent) /\ resp.code = 200

AuthFailurePayload == [errorCode |-> "authFailure"]

\* the users of the active links a subject identifier names
UsersOfSubject(linkRows, sub) ==
    {linkRows[i].user_id : i \in {j \in DOMAIN linkRows :
        linkRows[j].google_agent_user_id = sub /\ linkRows[j].is_active = 1}}

\* device id names an active device of user u
OwnedBy(id, u) ==
    \E i \in DOMAIN devices :
        /\ devices[i].device_uuid = id
        /\ devices[i].is_active = 1
        /\ devices[i].owner_user_id = u

OwnedByCaller(id) == \E u \in UsersOfSubject(links, req.token.sub) : OwnedBy(id, u)

Range(f) == {f[i] : i \in DOMAIN f}
Count(f, T(_)) == Cardinality({i \in DOMAIN f : T(f[i])})

\* the device ids of an EXECUTE batch, one per occurrence
RECURSIVE RequestedDevices(_)
RequestedDevices(commands) ==
    IF commands = <<>> THEN <<>>
    ELSE Head(commands).devices \o RequestedDevices(Tail(commands))

IsNotFoundFor(id, e) ==
    e.ids = <<id>> /\ e.status = "ERROR" /\ e.errorCode = "deviceNotFound"

----------------------------------------------------------------------------
(* C1 *)

\* C1: in handleExecute every RPC sent goes to an active device of the user
\* the bearer resolves to; a requested device that is absent, soft-deleted
\* or another user's gets one deviceNotFound entry per occurrence and no
\* other entry, and every owned device of the batch still gets its entries.
C1_NoRpcForForeignDevice ==
    Answered("EXECUTE") =>
        LET results == resp.payload.commands
            wanted == RequestedDevices(req.commands)
        IN  /\ \A c \in Range(gwCalls) : c.call = "rpc" /\ OwnedByCaller(c.dev)
            /\ \A id \in Range(wanted) :
                  IF OwnedByCaller(id)
                  THEN \E e \in Range(results) : e.ids = <<id>> /\ ~IsNotFoundFor(id, e)
                  ELSE /\ Count(results, LAMBDA e : IsNotFoundFor(id, e))
                             = Count(wanted, LAMBDA d : d = id)
                       /\ \A e \in Range(results) : e.ids = <<id>> => IsNotFoundFor(id, e)

\* an EXECUTE group naming a device the caller does not own, though it is in
\* the registry, and a device the caller owns, to which an RPC was sent
C1_Witness ==
    /\ Answered("EXECUTE")
    /\ \E id \in Range(RequestedDevices(req.commands)) :
          /\ ~OwnedByCaller(id)
          /\ \E i \in DOMAIN devices : devices[i].device_uuid = id
    /\ \E id \in Range(RequestedDevices(req.commands)) : OwnedByCaller(id)
    /\ gwCalls # <<>>

----------------------------------------------------------------------------
(* C2 *)

\* the credential is missing, not signed by this server, expired, or its
\* subject has no active Account Link
BadCredential(tok, linkRows) ==
    \/ tok.status \in {"missing", "badsig", "expired"}
    \/ UsersOfSubject(linkRows, tok.sub) = {}

\* C2: SYNC, QUERY and EXECUTE answer authFailure, call the Gateway never and
\* leave the registry as it is whenever the bearer credential is missing,
\* invalid, expired or without an active Account Link.
C2_BadCredentialRejected ==
    [][(/\ req = NoReq
        /\ IsFulfillment(req')
        /\ req'.intent \in {"SYNC", "QUERY", "EXECUTE"}
        /\ BadCredential(req'.token, links))
       => (/\ resp'.payload = AuthFailurePayload
           /\ gwCalls' = <<>>
           /\ links' = links
           /\ devices' = devices)]_vars

----------------------------------------------------------------------------
(* C3 *)

\* C3: the commands list of an EXECUTE response holds exactly one entry for
\* each requested (device, command) pair.
C3_OneEntryPerPair ==
    Answered("EXECUTE") => Len(resp.payload.commands) = PairCount(req.commands)

----------------------------------------------------------------------------
(* C4 *)

\* the RPCs of one group when every pair is processed
RECURSIVE RpcsDue(_)
RpcsDue(commands) ==
    IF commands = <<>> THEN 0
    ELSE LET g == Head(commands)
             owned == {i \in DOMAIN g.devices : OwnedByCaller(g.devices[i])}
             supported(id) ==
                 {k \in DOMAIN g.execution :
                     convertGoogleCommandToRpc(g.execution[k].command, g.execution[k].params,
                                               findByUuid(devices, id)) # Null}
             due == [i \in owned |-> Cardinality(supported(g.devices[i]))]
             RECURSIVE Sum(_)
             Sum(S) == IF S = {} THEN 0
                       ELSE LET x == CHOOSE y \in S : TRUE IN due[x] + Sum(S \ {x})
         IN  Sum(owned) + RpcsDue(Tail(commands))

\* C4: a Gateway failure on one pair gives that pair a hardError entry and
\* stops nothing: the RPC of every pair of the batch that has one is issued,
\* and there is one hardError entry per failed RPC.
C4_FailureDoesNotStopBatch ==
    Answered("EXECUTE") =>
        /\ Len(gwCalls) = RpcsDue(req.commands)
        /\ Count(resp.payload.commands,
                 LAMBDA e : e.status = "ERROR" /\ e.errorCode = "hardError")
               = Cardinality(req.fails \cap (1..RpcsDue(req.commands)))

----------------------------------------------------------------------------
(* C5 *)

\* the last item of a QUERY batch that names the device
LastItemFor(id) ==
    LET at == {i \in DOMAIN req.devices : req.devices[i].id = id}
    IN  req.devices[CHOOSE i \in at : \A j \in at : j <= i]

\* C5: in handleQuery an owned device whose telemetry or attributes fetch
\* failed at the Gateway is answered with status ERROR and errorCode
\* hardError, and every requested device has an entry.
C5_GatewayFailureIsHardError ==
    Answered("QUERY") =>
        \A id \in {req.devices[i].id : i \in DOMAIN req.devices} :
            /\ id \in DOMAIN resp.payload.devices
            /\ (/\ OwnedByCaller(id)
                /\ (LastItemFor(id).telemetry = GwError \/ LastItemFor(id).attributes = GwError))
               => resp.payload.devices[id] = HardError

----------------------------------------------------------------------------
(* C6 *)

\* the request without its items for device K
WithoutDevice(r, K) == [r EXCEPT !.devices = SelectSeq(r.devices, LAMBDA it : it.id # K)]

----------------------------------------------------------------------------
(* C7 *)

StoredInactive(linkRows, sub) ==
    \E i \in DOMAIN linkRows :
        linkRows[i].google_agent_user_id = sub /\ linkRows[i].is_active = 0

\* C7: a link row is never removed and an inactive one never becomes active
\* again; after a DISCONNECT every link of the credential's subject is
\* inactive; and SYNC, QUERY and EXECUTE carrying a credential whose
\* subject's link is inactive answer authFailure without a Gateway call.
C7_DisconnectedStaysOut ==
    [][/\ Len(links') >= Len(links)
       /\ \A i \in DOMAIN links :
             /\ links'[i].google_agent_user_id = links[i].google_agent_user_id
             /\ links'[i].user_id = links[i].user_id
             /\ links[i].is_active = 0 => links'[i].is_active = 0
       /\ (req = NoReq /\ IsFulfillment(req') /\ req'.intent = "DISCONNECT")
          => \A i \in DOMAIN links' :
                links'[i].google_agent_user_id = req'.token.sub => links'[i].is_active = 0
       /\ (/\ req = NoReq
           /\ IsFulfillment(req')
           /\ req'.intent \in {"SYNC", "QUERY", "EXECUTE"}
           /\ StoredInactive(links, req'.token.sub))
          => (resp'.payload = AuthFailurePayload /\ gwCalls' = <<>>)]_vars

\* a SYNC, QUERY or EXECUTE with a credential this server issued, whose
\* link was disconnected, answered with authFailure
C7_Witness ==
    /\ IsFulfillment(req)
    /\ req.intent \in {"SYNC", "QUERY", "EXECUTE"}
    /\ req.token.status = "valid"
    /\ StoredInactive(links, req.token.sub)
    /\ resp.payload = AuthFailurePayload

----------------------------------------------------------------------------
(* C8 *)

\* C8: DISCONNECT answers {requestId, payload: {}} for every credential and
\* every state of the link, and a second call changes neither the response
\* nor the registry.
C8_DisconnectIdempotent ==
    Handling("DISCONNECT") =>
        /\ resp = Response(200, req.requestId, EmptyPayload)
        /\ LET again == Fulfillment(req, devices, links, now)
           IN  again.resp = resp /\ again.links = links

\* a DISCONNECT with a credential this server issued, whose link is already
\* inactive
C8_Witness ==
    /\ Handling("DISCONNECT")
    /\ req.token.status = "valid"
    /\ StoredInactive(links, req.token.sub)
    /\ UsersOfSubject(links, req.token.sub) = {}

----------------------------------------------------------------------------
(* C9 *)

\* the ids of the active devices of the users, in the order of the rows
DevicesInRegistryOrder(users) ==
    LET mine == SelectSeq(devices, LAMBDA d : d.owner_user_id \in users /\ d.is_active = 1)
    IN  [i \in DOMAIN mine |-> mine[i].device_uuid]

\* C9: the device list of a SYNC holds one descriptor for each active device
\* of the link's user and no other, in the order the devices were inserted.
C9_SyncListsOwnedInOrder ==
    Answered("SYNC") =>
        LET listed == resp.payload.devices
        IN  [i \in DOMAIN listed |-> listed[i].id]
                = DevicesInRegistryOrder(UsersOfSubject(links, req.token.sub))

\* a SYNC listing two devices provisioned at different times, while the
\* registry also holds a soft-deleted device or one of another user
C9_Witness ==
    /\ Answered("SYNC")
    /\ Len(resp.payload.devices) >= 2
    /\ \E i, j \in DOMAIN devices :
          /\ OwnedByCaller(devices[i].device_uuid)
          /\ OwnedByCaller(devices[j].device_uuid)
          /\ devices[i].provisioned_at < devices[j].provisioned_at
    /\ \E i \in DOMAIN devices : ~OwnedByCaller(devices[i].device_uuid)

----------------------------------------------------------------------------
(* C10 *)

\* C10: a SYNC whose credential resolves to an active link returns the device
\* list and sets the last-sync time of that link, and of no other, leaving
\* every other field and the devices as they were; any other SYNC answers
\* with the error tag alone and leaves the registry unchanged.
C10_SyncTouchesOnlyLastSync ==
    [][(req = NoReq /\ IsFulfillment(req') /\ req'.intent = "SYNC") =>
          /\ devices' = devices
          /\ IF UsersOfSubject(links, req'.token.sub) # {}
             THEN /\ DOMAIN resp'.payload = {"agentUserId", "devices"}
                  /\ links' = [i \in DOMAIN links |->
                                  IF links[i].google_agent_user_id = req'.token.sub
                                  THEN [links[i] EXCEPT !.last_sync_at = now]
                                  ELSE links[i]]
             ELSE /\ resp'.payload = AuthFailurePayload
                  /\ links' = links]_vars

\* a SYNC that moved the last-sync time of its link while another link,
\* synchronised earlier, is stored
C10_Witness ==
    /\ Answered("SYNC")
    /\ \E i, j \in DOMAIN links :
          /\ links[i].google_agent_user_id = req.token.sub
          /\ links[i].last_sync_at = now
          /\ links[i].linked_at < now
          /\ links[j].last_sync_at < now

----------------------------------------------------------------------------
(* C11 *)

\* the row of the registry a descriptor or a call names
RowOf(id) == devices[CHOOSE i \in DOMAIN devices : devices[i].device_uuid = id]
Capabilities(id) == Range(RowOf(id).capabilities)

----------------------------------------------------------------------------
(* C12 *)

\* an EXECUTE of one command on one device of the caller
OneOwnedPair ==
    /\ Answered("EXECUTE")
    /\ Len(req.commands) = 1
    /\ Len(req.commands[1].devices) = 1
    /\ Len(req.commands[1].execution) = 1
    /\ OwnedByCaller(req.commands[1].devices[1])

TheDevice == req.commands[1].devices[1]
TheExecution == req.commands[1].execution[1]

\* the pair was found unsupported: no RPC, one functionNotSupported entry
Unsupported ==
    /\ gwCalls = <<>>
    /\ resp.payload.commands =
           <<[ids |-> <<TheDevice>>, status |-> "ERROR", errorCode |-> "functionNotSupported"]>>
    /\ convertGoogleCommandToRpc(TheExecution.command, TheExecution.params, RowOf(TheDevice))
           = Null

\* one RPC with the method went out and, when accepted, the echo came back
Issued(method, echo) ==
    /\ Len(gwCalls) = 1
    /\ gwCalls[1].dev = TheDevice
    /\ gwCalls[1].method = method
    /\ req.fails = {} =>
          resp.payload.commands =
              <<[ids |-> <<TheDevice>>, status |-> "SUCCESS", states |-> echo]>>

\* C12: OnOff is translated for every device to setDeviceState with state =
\* params.on and echo {on}; SetFanSpeed to setFanSpeed only with fan or speed;
\* BrightnessAbsolute to setBrightness with brightness = params.brightness and
\* echo {brightness} only with dimmer; a failed precondition and any other
\* command give the same unsupported result.
C12_CommandTranslation ==
    OneOwnedPair =>
        LET caps == Capabilities(TheDevice)
            e == TheExecution
        IN  CASE e.command = "OnOff" ->
                    /\ Issued("setDeviceState", [online |-> TRUE, on |-> e.params.on])
                    /\ gwCalls[1].params.state = e.params.on
              [] e.command = "SetFanSpeed" ->
                    IF caps \cap {"fan", "speed"} # {}
                    THEN Issued("setFanSpeed",
                                [online |-> TRUE, currentFanSpeedSetting |-> e.params.fanSpeed])
                    ELSE Unsupported
              [] e.command = "BrightnessAbsolute" ->
                    IF "dimmer" \in caps
                    THEN /\ Issued("setBrightness",
                                   [online |-> TRUE, brightness |-> e.params.brightness])
                         /\ gwCalls[1].params = [brightness |-> e.params.brightness]
                    ELSE Unsupported
              [] OTHER -> Unsupported

\* a SetFanSpeed refused for a device that has neither fan nor speed
C12_Witness ==
    /\ OneOwnedPair
    /\ TheExecution.command = "SetFanSpeed"
    /\ Capabilities(TheDevice) \cap {"fan", "speed"} = {}
    /\ "dimmer" \in Capabilities(TheDevice)
    /\ Unsupported

----------------------------------------------------------------------------
(* C13 *)

\* n for the label speed_n of the enumeration, 0 for every other label
SpeedOfLabel(label) ==
    CASE label = "speed_1" -> 1
      [] label = "speed_2" -> 2
      [] label = "speed_3" -> 3
      [] label = "speed_4" -> 4
      [] label = "speed_5" -> 5
      [] OTHER -> 0

\* C13: the speed parameter of the RPC of a SetFanSpeed on a device with fan
\* or speed is the number n of 0..5 for the label speed_n and the number 0
\* for every other label; the echoed currentFanSpeedSetting is the label.
C13_FanSpeedInRange ==
    (/\ OneOwnedPair
     /\ TheExecution.command = "SetFanSpeed"
     /\ Capabilities(TheDevice) \cap {"fan", "speed"} # {})
    => /\ Len(gwCalls) = 1
       /\ gwCalls[1].params.speed \in {Number(n) : n \in 0..5}
       /\ gwCalls[1].params.speed = Number(SpeedOfLabel(TheExecution.params.fanSpeed))
       /\ req.fails = {} =>
             resp.payload.commands[1].states.currentFanSpeedSetting
                 = TheExecution.params.fanSpeed

----------------------------------------------------------------------------
(* C14 *)

\* the device of these capabilities has what the command needs
SupportedBy(e, caps) ==
    \/ e.command = "OnOff"
    \/ e.command = "SetFanSpeed" /\ caps \cap {"fan", "speed"} # {}
    \/ e.command = "BrightnessAbsolute" /\ "dimmer" \in caps

\* SUCCESS, or the error code, of a result entry
Outcome(entry) ==
    [ids |-> entry.ids,
     tag |-> IF entry.status = "SUCCESS" THEN "SUCCESS" ELSE entry.errorCode]

\* the outcomes of a group when no RPC fails: one deviceNotFound for a device
\* that is not the caller's, else one outcome per command of the group
RECURSIVE OutcomesDue(_, _)
OutcomesDue(devs, execution) ==
    IF devs = <<>> THEN <<>>
    ELSE LET id == Head(devs)
         IN  (IF ~OwnedByCaller(id)
              THEN <<[ids |-> <<id>>, tag |-> "deviceNotFound"]>>
              ELSE [k \in DOMAIN execution |->
                       [ids |-> <<id>>,
                        tag |-> IF SupportedBy(execution[k], Capabilities(id))
                                THEN "SUCCESS" ELSE "functionNotSupported"]])
             \o OutcomesDue(Tail(devs), execution)

----------------------------------------------------------------------------
(* C15 *)

\* a group that is the same On/Off command twice
SameOnOffTwice(g) ==
    /\ Len(g.execution) = 2
    /\ g.execution[1] = g.execution[2]
    /\ g.execution[1].command = "OnOff"

\* with every RPC accepted, each entry of a device of the caller in such a
\* group is SUCCESS with online true and on as requested, two per occurrence
TwiceEchoed ==
    (Answered("EXECUTE") /\ req.fails = {}) =>
        \A g \in Range(req.commands) : \A id \in Range(g.devices) :
            (OwnedByCaller(id) /\ SameOnOffTwice(g)) =>
                /\ \A e \in Range(resp.payload.commands) :
                      e.ids = <<id>> =>
                          e = [ids |-> <<id>>, status |-> "SUCCESS",
                               states |-> [online |-> TRUE,
                                           on |-> g.execution[1].params.on]]
                /\ Count(resp.payload.commands, LAMBDA e : e.ids = <<id>>)
                       = 2 * Count(g.devices, LAMBDA d : d = id)

\* C15: the same On/Off command issued twice to a device of the caller, both
\* RPCs accepted, gives two SUCCESS entries with the same echoed state (on as
\* requested, online true), and an EXECUTE leaves the registry as it was.
C15_RepeatedOnOff ==
    [][(req = NoReq /\ Handling("EXECUTE")')
       => (devices' = devices /\ links' = links /\ TwiceEchoed')]_vars

\* an accepted EXECUTE of the same switch-off twice on a device of the caller
C15_Witness ==
    /\ Answered("EXECUTE")
    /\ req.fails = {}
    /\ SameOnOffTwice(req.commands[1])
    /\ req.commands[1].execution[1].params.on = FALSE
    /\ OwnedByCaller(req.commands[1].devices[1])
    /\ Len(gwCalls) >= 2

----------------------------------------------------------------------------
(* C16 *)

\* the handler of the request reached a statement of the Registry, which threw
RegistryThrew ==
    /\ IsFulfillment(req)
    /\ req.intent \in {"SYNC", "QUERY", "EXECUTE", "DISCONNECT"}
    /\ req.registry = "throws"
    /\ req.token.status # "missing"
    /\ req.token.sub # Null

\* C16: an exception of the Registry during any of the four handlers is
\* answered, once, with a hardError response that carries the requestId.
C16_FaultIsHardError ==
    RegistryThrew =>
        /\ resp # NoResp
        /\ resp.requestId = req.requestId
        /\ "errorCode" \in DOMAIN resp.payload
        /\ resp.payload.errorCode = "hardError"

----------------------------------------------------------------------------
(* C17 *)

\* the body was parsed and lacks the requestId, or its inputs are missing or
\* are not a list
Malformed(r) ==
    /\ r.ep = "fulfillment"
    /\ r.inputs # "unparsed"
    /\ r.requestId = "" \/ r.inputs \in {"missing", "object"}

\* C17: an envelope without requestId, or whose inputs are missing or not a
\* list, is answered with the format error whatever its intent and
\* credential, the registry is not written and the Gateway is not called;
\* a well-formed QUERY or EXECUTE of a caller with an active link is
\* answered with its per-item results, whatever fails item by item.
C17_MalformedRejectedWhole ==
    [][(req = NoReq /\ req' # NoReq) =>
          /\ Malformed(req') =>
                /\ resp' = [code |-> 400, error |-> "Invalid request format"]
                /\ links' = links /\ devices' = devices /\ gwCalls' = <<>>
          /\ (/\ IsFulfillment(req')
              /\ req'.registry = "ok"
              /\ UsersOfSubject(links, req'.token.sub) # {}) =>
                /\ req'.intent = "QUERY" =>
                      /\ resp'.code = 200
                      /\ DOMAIN resp'.payload = {"devices"}
                      /\ DOMAIN resp'.payload.devices
                             = {req'.devices[i].id : i \in DOMAIN req'.devices}
                /\ req'.intent = "EXECUTE" =>
                      /\ resp'.code = 200
                      /\ DOMAIN resp'.payload = {"commands"}]_vars

\* a SYNC without requestId from a caller with an active link, refused
C17_Witness ==
    /\ req # NoReq
    /\ Malformed(req)
    /\ req.requestId = ""
    /\ req.inputs = "list"
    /\ req.intent = "SYNC"
    /\ UsersOfSubject(links, req.token.sub) # {}
    /\ resp = [code |-> 400, error |-> "Invalid request format"]

----------------------------------------------------------------------------
(* C18 *)

\* C18: a well-formed envelope is answered by the handler of its intent and
\* by no other; an intent that is none of the four is answered with
\* notSupported and the requestId, without a Registry write or a Gateway call.
C18_OneHandlerPerIntent ==
    [][(req = NoReq /\ IsFulfillment(req')) =>
          LET r == req'
              out == [resp |-> resp', links |-> links', calls |-> gwCalls']
          IN  /\ devices' = devices
              /\ CASE r.intent = "SYNC" -> out = handleSync(r, devices, links, now)
                   [] r.intent = "QUERY" -> out = handleQuery(r, devices, links)
                   [] r.intent = "EXECUTE" -> out = handleExecute(r, devices, links)
                   [] r.intent = "DISCONNECT" -> out = handleDisconnect(r, links)
                   [] OTHER ->
                        /\ resp' = Response(400, r.requestId, [errorCode |-> "notSupported"])
                        /\ links' = links
                        /\ gwCalls' = <<>>]_vars

\* an unknown intent from a caller with an active link, answered notSupported
C18_Witness ==
    /\ IsFulfillment(req)
    /\ req.intent \notin {"SYNC", "QUERY", "EXECUTE", "DISCONNECT"}
    /\ UsersOfSubject(links, req.token.sub) # {}
    /\ resp.payload = [errorCode |-> "notSupported"]
    /\ resp.requestId = req.requestId

----------------------------------------------------------------------------
(* C19 *)

\* the messages of the errors thrown inside the server
InternalMessages ==
    {RegistryErrorMessage, TypeErrorMessage, BodyParseError.message, BodyParseError.stack}

\* the strings of a response, at any depth the responses have
StringsOf(response) ==
    LET top == {response[k] : k \in (DOMAIN response) \cap {"error", "message", "stack"}}
        inner == IF "payload" \in DOMAIN response
                 THEN {response.payload[k] :
                          k \in (DOMAIN response.payload) \cap {"errorCode", "debugString"}}
                 ELSE {}
    IN  top \cup inner

\* C19: in production no response of the fulfillment endpoint carries the
\* message or the stack trace of an error thrown inside the server.
C19_NoInternalMessage ==
    (NODE_ENV = "production" /\ req # NoReq /\ req.ep = "fulfillment") =>
        StringsOf(resp) \cap InternalMessages = {}

----------------------------------------------------------------------------
(* C20 *)

\* C20: every QUERY and EXECUTE request is answered at last, also when a
\* Gateway call of it never returns.
C20_EveryRequestAnswered ==
    (req # NoReq) ~> (resp # NoResp)

----------------------------------------------------------------------------
(* C21 *)

\* the active rows of a subject identifier
ActiveRows(linkRows, sub) ==
    {i \in DOMAIN linkRows :
        linkRows[i].google_agent_user_id = sub /\ linkRows[i].is_active = 1}

\* the request is a grant of the token endpoint that was answered with tokens
Granted(grant) ==
    /\ req # NoReq
    /\ req.ep = "token"
    /\ req.body.grant_type = grant
    /\ resp.code = 200

\* C21: after any sequence of token exchanges, token refreshes and
\* disconnects the registry holds at most one active Account Link per
\* assistant subject identifier (and at most one row per identifier).
C21_OneActiveLinkPerSubject ==
    \A sub \in AgentsOf(links) :
        /\ Cardinality(ActiveRows(links, sub)) <= 1
        /\ Cardinality({i \in DOMAIN links : links[i].google_agent_user_id = sub}) = 1

\* a refresh grant answered with a token for a user who holds two active
\* links, of two subject identifiers
C21_Witness ==
    /\ Granted("refresh_token")
    /\ \E i, j \in DOMAIN links :
          /\ i # j
          /\ links[i].user_id = links[j].user_id
          /\ links[i].google_agent_user_id # links[j].google_agent_user_id
          /\ links[i].is_active = 1 /\ links[j].is_active = 1
          /\ links[i].google_agent_user_id = req.body.refresh_token.sub

----------------------------------------------------------------------------
(* C22 *)

\* C22: every device stored in the registry has a non-empty capability list:
\* a registration with an empty capability list creates no device.
C22_CapabilitiesNeverEmpty ==
    \A i \in DOMAIN devices : devices[i].capabilities # <<>>

----------------------------------------------------------------------------
(* C23 *)

\* the ids of the soft-deleted devices
Deleted(deviceRows) ==
    {deviceRows[i].device_uuid : i \in {j \in DOMAIN deviceRows : deviceRows[j].is_active = 0}}

IsDeviceRequest(r, op) == r # NoReq /\ r.ep = "device" /\ r.op = op

\* the answer to request r shows no device of gone: not in a SYNC or in a
\* device list, deviceNotFound in QUERY and EXECUTE, and no Gateway call
HidesDeleted(r, response, calls, gone) ==
    /\ \A c \in Range(calls) : c.dev \notin gone
    /\ (IsDeviceRequest(r, "list") /\ response.code = 200) =>
          \A d \in Range(response.devices) : d.deviceUuid \notin gone
    /\ (IsFulfillment(r) /\ response.code = 200) =>
          CASE r.intent = "SYNC" ->
                  \A d \in Range(response.payload.devices) : d.id \notin gone
            [] r.intent = "QUERY" ->
                  \A id \in {r.devices[i].id : i \in DOMAIN r.devices} \cap gone :
                      /\ id \in DOMAIN response.payload.devices
                      /\ response.payload.devices[id] = DeviceNotFound
            [] r.intent = "EXECUTE" ->
                  \A id \in Range(RequestedDevices(r.commands)) \cap gone :
                      /\ \E e \in Range(response.payload.commands) : e.ids = <<id>>
                      /\ \A e \in Range(response.payload.commands) :
                            e.ids = <<id>> => IsNotFoundFor(id, e)
            [] OTHER -> TRUE

\* C23: deleting a device marks its row inactive and removes no row; from
\* then on no SYNC and no device list shows the device, QUERY and EXECUTE
\* answer deviceNotFound for it without a Gateway call, and no step makes it
\* active again or changes the owner of a device.
C23_DeletedStaysDeleted ==
    [][/\ Len(devices') >= Len(devices)
       /\ \A i \in DOMAIN devices :
             /\ devices'[i].device_uuid = devices[i].device_uuid
             /\ devices'[i].owner_user_id = devices[i].owner_user_id
             /\ devices[i].is_active = 0 => devices'[i] = devices[i]
       /\ (req = NoReq /\ req' # NoReq) =>
             /\ HidesDeleted(req', resp', gwCalls', Deleted(devices'))
             /\ (IsDeviceRequest(req', "delete") /\ resp'.code = 200) =>
                   /\ req'.deviceUuid \in Deleted(devices')
                   /\ devices' = [i \in DOMAIN devices |->
                                     IF devices[i].device_uuid = req'.deviceUuid
                                     THEN [devices[i] EXCEPT !.is_active = 0]
                                     ELSE devices[i]]]_vars

\* an EXECUTE, by the user who owned it, for a device that user deleted,
\* answered deviceNotFound, while that user still has an active device
C23_Witness ==
    /\ Answered("EXECUTE")
    /\ \E i, j \in DOMAIN devices :
          /\ devices[i].is_active = 0
          /\ devices[i].owner_user_id \in UsersOfSubject(links, req.token.sub)
          /\ devices[i].device_uuid \in Range(RequestedDevices(req.commands))
          /\ devices[j].is_active = 1
          /\ devices[j].owner_user_id = devices[i].owner_user_id
    /\ gwCalls = <<>>
    /\ \E e \in Range(resp.payload.commands) : e.errorCode = "deviceNotFound"

----------------------------------------------------------------------------
(* C24 *)

\* the caller of request r was let through as the owner of its device
CallerOwns(r) == r.token.status = "valid" /\ OwnedBy(r.deviceUuid, r.token.uid)

\* C24: on the device routes, get-details, delete and control act on a device
\* only for the authenticated user who owns it: any other caller gets no
\* data, deletes nothing and causes no Gateway call; the owner is served;
\* and the device list is that of the caller's own active devices.
C24_UsersIsolated ==
    [][(req = NoReq /\ req' # NoReq /\ req'.ep = "device") =>
          LET r == req'
          IN  /\ links' = links
              /\ \A c \in Range(gwCalls') : c.dev = r.deviceUuid /\ CallerOwns(r)
              /\ r.op = "list" =>
                    /\ devices' = devices
                    /\ resp'.code = 200 =>
                          /\ {d.deviceUuid : d \in Range(resp'.devices)}
                                 = {id \in 1..Len(devices) : OwnedBy(id, r.token.uid)}
                          /\ Len(resp'.devices) = Cardinality(Range(resp'.devices))
              /\ (r.op # "list" /\ ~CallerOwns(r)) =>
                    /\ devices' = devices
                    /\ gwCalls' = <<>>
                    /\ resp'.code \in {400, 401, 403, 404}
                    /\ DOMAIN resp' \cap {"device", "result", "success"} = {}
              /\ (r.op = "get" /\ CallerOwns(r)) =>
                    /\ resp'.code = 200
                    /\ resp'.device.view.deviceUuid = r.deviceUuid
                    /\ devices' = devices
              /\ (r.op = "delete" /\ CallerOwns(r)) =>
                    /\ resp'.code = 200
                    /\ devices' = DeviceDelete(devices, r.deviceUuid)
              /\ (r.op = "control" /\ resp'.code = 200) =>
                    /\ CallerOwns(r)
                    /\ Len(gwCalls') = 1
                    /\ gwCalls'[1].call = "rpc"
                    /\ devices' = devices]_vars

\* a control request of a user for an active device of another user, refused
\* without an RPC
C24_Witness ==
    /\ IsDeviceRequest(req, "control")
    /\ req.token.status = "valid"
    /\ req.method # "" /\ req.params # Null
    /\ \E u \in Users \ {req.token.uid} : OwnedBy(req.deviceUuid, u)
    /\ resp = AccessDenied
    /\ gwCalls = <<>>

----------------------------------------------------------------------------
(* C25 *)

\* the telemetry answer has a state key whose latest value is 1 or true
SomeStateOn(telemetry) ==
    /\ telemetry # GwError
    /\ \E k \in StateKeys \cap DOMAIN telemetry :
          /\ telemetry[k] # <<>>
          /\ telemetry[k][1].value \in {Number(1), Bool(TRUE)}

\* the telemetry answer has a reading of fan_speed
HasFanReading(telemetry) ==
    /\ telemetry # GwError
    /\ "fan_speed" \in DOMAIN telemetry
    /\ telemetry["fan_speed"] # <<>>

----------------------------------------------------------------------------
(* C26 *)

\* the callers whose login is under way
LoggingIn == {c \in Callers : callers[c].pc = "login"}

\* C26: of the callers of getAdminToken that find the cached token absent or
\* expired, at most one has a login to ThingsBoard under way at any time.
C26_SingleFlight ==
    Cardinality(LoggingIn) <= 1

----------------------------------------------------------------------------
(* C27 *)

\* r is a refresh grant the endpoint takes up: the configured client and a
\* refresh token this server signed, not expired
IsRefreshGrant(r) ==
    /\ r # NoReq
    /\ r.ep = "token"
    /\ r.body.client_id = OAUTH_CLIENT_ID /\ r.body.client_secret = OAUTH_CLIENT_SECRET
    /\ r.body.grant_type = "refresh_token"
    /\ r.body.refresh_token # Null
    /\ r.body.refresh_token.typ = "refresh_token"
    /\ r.body.refresh_token.status = "valid"

\* C27: a link row that disconnect has marked inactive is never written
\* again by a token exchange, a token refresh, a SYNC or a disconnect, and a
\* refresh grant for a disconnected subject is answered without an access
\* token.
C27_DisconnectedNeverRevived ==
    [][/\ Len(links') >= Len(links)
       /\ \A i \in DOMAIN links : links[i].is_active = 0 => links'[i] = links[i]
       /\ (req = NoReq /\ IsRefreshGrant(req')
             /\ StoredInactive(links, req'.body.refresh_token.sub)) =>
             /\ "access_token" \notin DOMAIN resp'
             /\ resp'.code # 200
             /\ links' = links]_vars

\* a refresh grant with the refresh token of a disconnected link, refused
C27_Witness ==
    /\ IsRefreshGrant(req)
    /\ StoredInactive(links, req.body.refresh_token.sub)
    /\ resp = OAuthError(500, "server_error")

----------------------------------------------------------------------------
(* C28 *)

\* the endpoint took the token of the request for a valid credential: a
\* device route went past the middleware, a fulfillment handler past its
\* lookup of the link, a grant answered with tokens
TokenAccepted ==
    /\ req # NoReq
    /\ resp # NoResp
    /\ CASE req.ep = "device" -> resp.code # 401
         [] req.ep = "fulfillment" ->
                /\ IsFulfillment(req)
                /\ req.intent \in {"SYNC", "QUERY", "EXECUTE"}
                /\ resp.code = 200
         [] req.ep = "token" -> resp.code = 200
         [] OTHER -> FALSE

\* the token the request presented, and the purpose its endpoint expects
PresentedToken ==
    CASE req.ep = "device" -> req.token
      [] req.ep = "fulfillment" -> req.token
      [] req.ep = "token" ->
            IF req.body.grant_type = "authorization_code"
            THEN req.body.code ELSE req.body.refresh_token

ExpectedPurpose ==
    CASE req.ep = "device" -> "session"
      [] req.ep = "fulfillment" -> "access_token"
      [] req.ep = "token" ->
            IF req.body.grant_type = "authorization_code"
            THEN "auth_code" ELSE "refresh_token"

\* C28: a token is accepted only where its purpose is expected: a session
\* token by the device routes, an authorization code by the code grant, a
\* refresh token by the refresh grant, an access token by the fulfillment
\* handlers.
C28_TokenPurposeEnforced ==
    TokenAccepted => PresentedToken.typ = ExpectedPurpose

----------------------------------------------------------------------------
(* C29 *)

\* the body carries the configured client id and secret
ClientMatches(b) ==
    b.client_id = OAUTH_CLIENT_ID /\ b.client_secret = OAUTH_CLIENT_SECRET

\* the body is a code grant whose code is an unexpired authorization code of
\* this server, issued for the redirect URI the body presents
CodeVerifies(b) ==
    /\ b.grant_type = "authorization_code"
    /\ b.code # Null
    /\ b.code.typ = "auth_code"
    /\ b.code.status = "valid"
    /\ b.redirect_uri = b.code.redirectUri

\* the one row a grant wrote: that of the subject, active and bound to the
\* user, every other row being as it was
WroteLinkFor(old, new, sub, user) ==
    /\ \E i \in DOMAIN new :
          /\ new[i].google_agent_user_id = sub
          /\ new[i].user_id = user
          /\ new[i].is_active = 1
    /\ \A i \in DOMAIN old : old[i].google_agent_user_id # sub => new[i] = old[i]
    /\ \A i \in DOMAIN new : new[i].google_agent_user_id # sub => i \in DOMAIN old

\* C29: the token endpoint answers with tokens, and writes the Account Link
\* registry, only for the configured client id and secret and, in the code
\* grant, for a code that verifies as an unexpired authorization code of the
\* redirect URI presented; a refused request leaves the registry as it was;
\* the link written and the tokens issued are those of the user of the code.
C29_TokensOnlyForVerifiedGrant ==
    [][(req = NoReq /\ req' # NoReq /\ req'.ep = "token") =>
          LET b == req'.body
              issued == "access_token" \in DOMAIN resp'
          IN  /\ devices' = devices
              /\ issued => ClientMatches(b) /\ (CodeVerifies(b) \/ IsRefreshGrant(req'))
              /\ ~issued => links' = links /\ resp'.code \in {400, 401, 500}
              /\ (issued /\ b.grant_type = "authorization_code") =>
                    /\ resp'.access_token = AccessToken(b.code.uid, resp'.access_token.sub, "valid")
                    /\ resp'.refresh_token
                           = RefreshToken(b.code.uid, resp'.access_token.sub, "valid")
                    /\ WroteLinkFor(links, links', resp'.access_token.sub, b.code.uid)
              /\ (issued /\ b.grant_type = "refresh_token") =>
                    /\ resp'.access_token
                           = AccessToken(b.refresh_token.uid, b.refresh_token.sub, "valid")
                    /\ WroteLinkFor(links, links', b.refresh_token.sub, b.refresh_token.uid)]_vars

\* a code grant of the configured client with an unexpired code of user 2,
\* presenting another redirect URI than the one of the code, refused while
\* the registry holds a link
C29_Witness ==
    /\ req # NoReq
    /\ req.ep = "token"
    /\ ClientMatches(req.body)
    /\ req.body.grant_type = "authorization_code"
    /\ req.body.code = AuthCode(2, "https://a.example/cb", "valid")
    /\ req.body.redirect_uri = "https://b.example/cb"
    /\ resp = OAuthError(400, "invalid_grant")
    /\ links # <<>>

----------------------------------------------------------------------------
(* C30 *)

\* the cached token and its expiry
Cache == <<adminToken, adminTokenExpiry>>

\* C30: getAdminToken returns the cached token without a login only while
\* the clock is before the recorded expiry; otherwise it logs in, and on the
\* answer stores the new token together with the expiry, which is the time
\* of the answer plus the token lifetime minus 60 seconds, and returns that
\* token; a login that fails leaves token and expiry as they were and the
\* caller gets the error.  Nothing else writes the cache.
C30_CachedUntilExpiry ==
    [][\A c \in Callers :
          /\ (callers[c] = Idle /\ callers'[c] # Idle) =>
                IF adminToken # Null /\ adminTokenExpiry # Null
                      /\ now < adminTokenExpiry.number
                THEN /\ callers'[c] = Returned(adminToken)
                     /\ tbLogins' = tbLogins
                     /\ Cache' = Cache
                ELSE /\ callers'[c].pc = "login"
                     /\ tbLogins' = tbLogins + 1
                     /\ Cache' = Cache
          /\ (callers[c].pc = "login" /\ callers'[c] # callers[c]) =>
                \/ /\ callers'[c].pc = "returned"
                   /\ callers'[c].token = AdminJwt(callers[c].n)
                   /\ adminToken' = callers'[c].token
                   /\ adminTokenExpiry' = Number(now + expiresIn * 1000 - 60000)
                \/ /\ callers'[c].pc = "threw"
                   /\ Cache' = Cache
          /\ (\A k \in Callers : callers[k].pc # "login") => Cache' = Cache]_vars

\* a caller whose login failed after the cached token had expired: the
\* cache still holds the old token and its expiry
C30_Witness ==
    /\ \E c \in Callers : callers[c] = Threw
    /\ adminToken = AdminJwt(1)
    /\ adminTokenExpiry = Number(3540000)
    /\ now >= 3540000
    /\ tbLogins >= 2

=============================================================================
